---- MODULE Spec2Model ----
(***************************************************************************)
(* family-office-tracker: the rule validator, the condition matcher, the   *)
(* rule selector, the categorizer/allocator and the CSV parsers of         *)
(* packages/core.                                                          *)
(*                                                                         *)
(* JavaScript values are modelled as follows.                              *)
(*  - An object is a record; a key the object does not have is a key that  *)
(*    is not in its DOMAIN (Has).  {...a, k: v} is Merge.                  *)
(*  - A value whose type the code inspects (typeof, Array.isArray) carries *)
(*    its type: Num(n), Str(s), Arr(items).                                *)
(*  - A description, a keyword or a regex pattern is a sequence of         *)
(*    one-character strings, so that toLowerCase and includes are          *)
(*    computed; an id is a sequence of string tokens, so that the template *)
(*    `${id}:split:${i}` is a concatenation.                               *)
(*  - Numbers are exact fixed-point rationals: a percent p is the integer  *)
(*    p * PercentScale, an amount a is the integer a * AmountScale, and    *)
(*    amounts are whole multiples of a currency unit, so that              *)
(*    amount * percent / 100 is computed without rounding.                 *)
(***************************************************************************)
EXTENDS Integers, Sequences, FiniteSets, TLC

VARIABLES
    rulesFile,      \* the rules document handed to the core
    transactions,   \* the normalized transactions handed to the core
    validation,     \* what validateRulesFile(rulesFile) returned or threw
    matched,        \* what matchRule(txn, rulesFile) returned or threw
    result,         \* what categorizeTransactions(transactions, rulesFile) returned or threw
    csv,            \* the CSV text and the source handed to the parser
    parsed,         \* what parseCsvString(csv) returned or threw
    imported,       \* what validateAndParseCsv(csv) returned
    exported,       \* what exportScheduleC(result.categorized, options) returned
    summary,        \* what generateSummary(result.categorized) returned
    alertSummary,   \* what generateAlerts(result.categorized) returned
    app,            \* the state of the web app: the persisted state hook and the UI state
    storage         \* localStorage under the app's key, and what the last loadData() did

vars ==
    <<rulesFile, transactions, validation, matched, result, csv, parsed, imported,
      exported, summary, alertSummary, app, storage>>

coreVars == <<rulesFile, transactions, validation, matched, result>>
parserVars == <<csv, parsed, imported>>
reportVars == <<exported, summary, alertSummary>>
webVars == <<app, storage>>

(***************************************************************************)
(* Values                                                                  *)
(***************************************************************************)
Has(obj, key) == key \in DOMAIN obj

Merge(a, b) ==
    [k \in (DOMAIN a) \cup (DOMAIN b) |-> IF k \in DOMAIN b THEN b[k] ELSE a[k]]

Num(n) == [type |-> "number", n |-> n]
Str(s) == [type |-> "string", s |-> s]
Arr(items) == [type |-> "array", items |-> items]

IsNumber(v) == v.type = "number"
IsArray(v) == v.type = "array"

Range(seq) == {seq[i] : i \in 1..Len(seq)}

Abs(x) == IF x < 0 THEN -x ELSE x

\* Fixed-point resolution of a percent: one unit is 1/PercentScale percent.
PercentScale == 250
HundredPercent == 100
\* Fixed-point resolution of an amount: one unit is 1/AmountScale dollar.
AmountScale == HundredPercent * PercentScale

Pct(whole, units) == whole * PercentScale + units
Dollars(d) == d * AmountScale

(***************************************************************************)
(* Text                                                                    *)
(***************************************************************************)
LowerChar(c) == IF c = "A" THEN "a" ELSE IF c = "B" THEN "b" ELSE c

toLowerCase(text) == [i \in 1..Len(text) |-> LowerChar(text[i])]

includes(text, part) ==
    \E start \in 0..(Len(text) - Len(part)) :
        \A j \in 1..Len(part) : text[start + j] = part[j]

(***************************************************************************)
(* rules-engine.js: the condition matcher                                  *)
(***************************************************************************)
matchAnyContains(text, keywords) ==
    IF ~IsArray(keywords) \/ Len(keywords.items) = 0
    THEN TRUE
    ELSE \E i \in 1..Len(keywords.items) : includes(text, toLowerCase(keywords.items[i]))

matchAllContains(text, keywords) ==
    IF ~IsArray(keywords) \/ Len(keywords.items) = 0
    THEN TRUE
    ELSE \A i \in 1..Len(keywords.items) : includes(text, toLowerCase(keywords.items[i]))

\* new RegExp(pattern, flags) throws on an unbalanced "(" and on an unknown flag.
RegExpCompiles(pattern, flags) == "(" \notin Range(pattern) /\ flags \in {"i", "g"}

\* regex.test(text) for a pattern of literal characters.
RegExpTest(pattern, flags, text) ==
    IF flags = "i"
    THEN includes(toLowerCase(text), toLowerCase(pattern))
    ELSE includes(text, pattern)

\* matchRegex with the failure of the compilation read as a match.
matchRegexInvalidMatches(text, regexConfig) ==
    IF regexConfig.type = "string"
    THEN ~RegExpCompiles(regexConfig.s, "i") \/ RegExpTest(regexConfig.s, "i", text)
    ELSE IF regexConfig.type = "object"
    THEN LET pattern == IF Has(regexConfig, "pattern") /\ regexConfig.pattern # <<>>
                        THEN regexConfig.pattern
                        ELSE IF Has(regexConfig, "regex") THEN regexConfig.regex
                        ELSE <<>>
             flags == IF Has(regexConfig, "flags") /\ regexConfig.flags # ""
                      THEN regexConfig.flags ELSE "i"
         IN  ~RegExpCompiles(pattern, flags) \/ RegExpTest(pattern, flags, text)
    ELSE FALSE

matchRegex(text, regexConfig) ==
    IF regexConfig.type = "string"
    THEN RegExpCompiles(regexConfig.s, "i") /\ RegExpTest(regexConfig.s, "i", text)
    ELSE IF regexConfig.type = "object"
    THEN LET pattern == IF Has(regexConfig, "pattern") /\ regexConfig.pattern # <<>>
                        THEN regexConfig.pattern
                        ELSE IF Has(regexConfig, "regex") THEN regexConfig.regex
                        ELSE <<>>
             flags == IF Has(regexConfig, "flags") /\ regexConfig.flags # ""
                      THEN regexConfig.flags ELSE "i"
         IN  RegExpCompiles(pattern, flags) /\ RegExpTest(pattern, flags, text)
    ELSE FALSE

\* JavaScript truthiness of a clause value: an array or an object is truthy,
\* a string is truthy unless it is empty.
Truthy(v) == ~(v.type = "string" /\ v.s = <<>>)

\* matchesWhen with `contains` read as a mere alias: it is not evaluated when
\* `any_contains` is present as well.
matchesWhenContainsAlias(txn, when) ==
    LET desc == toLowerCase(txn.description) IN
    IF Has(when, "contains") /\ Truthy(when.contains) /\ ~Has(when, "any_contains")
       /\ ~matchAnyContains(desc, when.contains) THEN "false"
    ELSE IF Has(when, "any_contains") /\ Truthy(when.any_contains)
       /\ ~matchAnyContains(desc, when.any_contains) THEN "false"
    ELSE IF Has(when, "all_contains") /\ Truthy(when.all_contains)
       /\ ~matchAllContains(desc, when.all_contains) THEN "false"
    ELSE IF Has(when, "regex") /\ Truthy(when.regex)
       /\ ~matchRegex(desc, when.regex) THEN "false"
    ELSE IF Has(when, "amount_gt") /\ IsNumber(when.amount_gt)
       /\ ~(txn.amount > when.amount_gt.n) THEN "false"
    ELSE IF Has(when, "amount_lt") /\ IsNumber(when.amount_lt)
       /\ ~(txn.amount < when.amount_lt.n) THEN "false"
    ELSE IF Has(when, "amount_between")
    THEN LET between == when.amount_between
             minOk == Has(between, "min") /\ IsNumber(between.min)
             maxOk == Has(between, "max") /\ IsNumber(between.max)
         IN  IF ~minOk \/ ~maxOk THEN "throw"
             ELSE IF ~(txn.amount >= between.min.n /\ txn.amount <= between.max.n)
             THEN "false"
             ELSE "true"
    ELSE "true"

\* "true", "false", or "throw" (amount_between requires numeric min and max).
matchesWhen(txn, when) ==
    LET desc == toLowerCase(txn.description) IN
    IF Has(when, "contains") /\ Truthy(when.contains)
       /\ ~matchAnyContains(desc, when.contains) THEN "false"
    ELSE IF Has(when, "any_contains") /\ Truthy(when.any_contains)
       /\ ~matchAnyContains(desc, when.any_contains) THEN "false"
    ELSE IF Has(when, "all_contains") /\ Truthy(when.all_contains)
       /\ ~matchAllContains(desc, when.all_contains) THEN "false"
    ELSE IF Has(when, "regex") /\ Truthy(when.regex)
       /\ ~matchRegex(desc, when.regex) THEN "false"
    ELSE IF Has(when, "amount_gt") /\ IsNumber(when.amount_gt)
       /\ ~(txn.amount > when.amount_gt.n) THEN "false"
    ELSE IF Has(when, "amount_lt") /\ IsNumber(when.amount_lt)
       /\ ~(txn.amount < when.amount_lt.n) THEN "false"
    ELSE IF Has(when, "amount_between")
    THEN LET between == when.amount_between
             minOk == Has(between, "min") /\ IsNumber(between.min)
             maxOk == Has(between, "max") /\ IsNumber(between.max)
         IN  IF ~minOk \/ ~maxOk THEN "throw"
             ELSE IF ~(txn.amount >= between.min.n /\ txn.amount <= between.max.n)
             THEN "false"
             ELSE "true"
    ELSE "true"

(***************************************************************************)
(* rules-engine.js: the rule selector                                      *)
(***************************************************************************)
\* rule.priority ?? 0
PriorityOf(rule) == IF Has(rule, "priority") THEN rule.priority ELSE 0

\* Mutant: the comparator with its operands exchanged (lower priority first).
ComparePriorityAscending(rules, a, b) ==
    IF PriorityOf(rules[b]) # PriorityOf(rules[a])
    THEN PriorityOf(rules[a]) - PriorityOf(rules[b])
    ELSE a - b

\* The comparator handed to Array.prototype.sort; a and b are the
\* originalIndex of two rules of the document.
ComparePriority(rules, a, b) ==
    IF PriorityOf(rules[b]) # PriorityOf(rules[a])
    THEN PriorityOf(rules[b]) - PriorityOf(rules[a])
    ELSE a - b

\* One step of the sort: item goes before the first element it compares below.
InsertSorted(rules, sorted, item) ==
    LET before == {i \in 1..Len(sorted) : ComparePriority(rules, item, sorted[i]) < 0}
        pos == IF before = {} THEN Len(sorted) + 1
               ELSE CHOOSE i \in before : \A j \in before : i <= j
    IN  SubSeq(sorted, 1, pos - 1) \o <<item>> \o SubSeq(sorted, pos, Len(sorted))

RECURSIVE SortPrefix(_, _)
SortPrefix(rules, n) ==
    IF n = 0 THEN <<>> ELSE InsertSorted(rules, SortPrefix(rules, n - 1), n)

\* The sorted rules, each named by its originalIndex (the rule object itself,
\* which the final map hands back, is rules[originalIndex]).
sortRulesByPriority(rules) == SortPrefix(rules, Len(rules))

NoRule == [kind |-> "null"]
Thrown == [kind |-> "throw"]

RECURSIVE FirstMatch(_, _, _, _)
FirstMatch(txn, rules, sortedRules, k) ==
    IF k > Len(sortedRules) THEN NoRule
    ELSE LET m == matchesWhen(txn, rules[sortedRules[k]].when) IN
         IF m = "true" THEN [kind |-> "rule", index |-> sortedRules[k]]
         ELSE IF m = "throw" THEN Thrown
         ELSE FirstMatch(txn, rules, sortedRules, k + 1)

\* [kind |-> "rule", index |-> i]: the rule object rulesFile.rules[i];
\* NoRule: null; Thrown: the error of matchesWhen reaches the caller.
matchRule(txn, rules) == FirstMatch(txn, rules, sortRulesByPriority(rules), 1)

(***************************************************************************)
(* rules-engine.js: the rule validator                                     *)
(***************************************************************************)
\* The tolerance 0.01 of the split sum, as 1 / ToleranceDivisor.
ToleranceDivisor == 100

Valid == [ok |-> TRUE]
Invalid(error) == [ok |-> FALSE, error |-> error]
InvalidRule(error, id) == [ok |-> FALSE, error |-> error, ruleId |-> id]

\* validateSplit with a one-sided tolerance: a total below 100 is accepted.
RECURSIVE validateSplitOneSided(_, _, _, _)
validateSplitOneSided(id, split, k, totalPercent) ==
    IF k > Len(split)
    THEN IF (totalPercent - HundredPercent * PercentScale) * ToleranceDivisor
              > PercentScale
         THEN [ok |-> FALSE, error |-> "split percentages must sum to 100",
               ruleId |-> id, got |-> totalPercent]
         ELSE Valid
    ELSE LET allocation == split[k] IN
         IF ~Has(allocation, "venture") \/ allocation.venture = ""
         THEN InvalidRule("split allocation missing venture", id)
         ELSE IF ~Has(allocation, "percent") \/ ~IsNumber(allocation.percent)
                 \/ allocation.percent.n <= 0
         THEN InvalidRule("split allocation percent must be a positive number", id)
         ELSE validateSplitOneSided(id, split, k + 1, totalPercent + allocation.percent.n)

\* The loop over r.then.split from allocation k on, totalPercent so far.
RECURSIVE validateSplit(_, _, _, _)
validateSplit(id, split, k, totalPercent) ==
    IF k > Len(split)
    THEN IF Abs(totalPercent - HundredPercent * PercentScale) * ToleranceDivisor
              > PercentScale
         THEN [ok |-> FALSE, error |-> "split percentages must sum to 100",
               ruleId |-> id, got |-> totalPercent]
         ELSE Valid
    ELSE LET allocation == split[k] IN
         IF ~Has(allocation, "venture") \/ allocation.venture = ""
         THEN InvalidRule("split allocation missing venture", id)
         ELSE IF ~Has(allocation, "percent") \/ ~IsNumber(allocation.percent)
                 \/ allocation.percent.n <= 0
         THEN InvalidRule("split allocation percent must be a positive number", id)
         ELSE validateSplit(id, split, k + 1, totalPercent + allocation.percent.n)

validateRule(r) ==
    IF ~Has(r, "id") \/ r.id = "" THEN Invalid("Each rule must have id.")
    ELSE IF ~Has(r, "when") THEN InvalidRule("missing when", r.id)
    ELSE IF ~Has(r, "then") THEN InvalidRule("missing then", r.id)
    ELSE IF Has(r.then, "split") /\ Truthy(r.then.split)
    THEN IF ~IsArray(r.then.split) THEN InvalidRule("split must be an array", r.id)
         ELSE validateSplit(r.id, r.then.split.items, 1, 0)
    ELSE Valid

RECURSIVE validateRules(_, _)
validateRules(rules, k) ==
    IF k > Len(rules) THEN Valid
    ELSE LET v == validateRule(rules[k]) IN
         IF v.ok THEN validateRules(rules, k + 1) ELSE v

\* Valid: returns true; anything else: the Error thrown.
validateRulesFile(file) ==
    IF ~Has(file, "rules") THEN Invalid("Rules file must contain rules[].")
    ELSE validateRules(file.rules, 1)

(***************************************************************************)
(* categorizer.js                                                          *)
(***************************************************************************)
\* Boolean(then.requiresReceipt)
RequiresReceipt(then) == Has(then, "requiresReceipt") /\ then.requiresReceipt = TRUE

\* value ?? fallback, for the key of an object
OrElse(obj, key, fallback) == IF Has(obj, key) THEN obj[key] ELSE fallback

\* A key whose value is undefined is a key the record does not have.
Field(obj, key, as) == IF Has(obj, key) THEN [k \in {as} |-> obj[key]] ELSE <<>>

\* Mutant: every leg rounded to the cent on its own.
allocatedAmountRounded(txn, allocation) ==
    LET cent == AmountScale \div HundredPercent
        exact == (txn.amount * allocation.percent.n) \div (HundredPercent * PercentScale)
    IN  (exact \div cent) * cent

\* (txn.amount * allocation.percent) / 100; the percent is a number in every
\* document the categorizer is given here.
allocatedAmount(txn, allocation) ==
    (txn.amount * allocation.percent.n) \div (HundredPercent * PercentScale)

\* The object pushed for allocation i (0-based) of rule.then.split.
SplitLeg(txn, rule, i) ==
    LET split == rule.then.split.items
        allocation == split[i + 1]
    IN  Merge(Merge(Merge(txn,
          [originalTxnId |-> txn.id,
           id |-> txn.id \o <<":split:", ToString(i)>>,
           amount |-> allocatedAmount(txn, allocation),
           category |-> OrElse(rule.then, "category", "Uncategorized"),
           requiresReceipt |-> RequiresReceipt(rule.then),
           note |-> OrElse(allocation, "note", ""),
           allocation |-> [percent |-> allocation.percent,
                           originalAmount |-> txn.amount,
                           splitIndex |-> i,
                           totalSplits |-> Len(split)]]),
          Field(allocation, "venture", "venture")),
          [audit |-> <<[step |-> "split_allocation",
                        ruleId |-> rule.id,
                        when |-> rule.when,
                        then |-> rule.then,
                        allocation |-> Merge(Field(allocation, "venture", "venture"),
                                             [percent |-> allocation.percent])]>>])

\* Mutant: only the first leg of a split pushed.
createSplitTransactionsFirstOnly(txn, rule) ==
    [k \in 1..(IF Len(rule.then.split.items) = 0 THEN 0 ELSE 1) |-> SplitLeg(txn, rule, k - 1)]

\* Mutant: the legs pushed last allocation first.
createSplitTransactionsReversed(txn, rule) ==
    [k \in 1..Len(rule.then.split.items) |->
        SplitLeg(txn, rule, Len(rule.then.split.items) - k)]

createSplitTransactions(txn, rule) ==
    [k \in 1..Len(rule.then.split.items) |-> SplitLeg(txn, rule, k - 1)]

Null == [type |-> "null"]

NoMatchItem(txn) ==
    Merge(txn, [category |-> "Uncategorized",
                venture |-> "unassigned",
                requiresReceipt |-> FALSE,
                audit |-> <<[step |-> "no_match", ruleId |-> Null]>>])

\* Mutant: the venture defaulted to the category sentinel.
StandardItemWrongDefault(txn, rule) ==
    LET then == OrElse(rule, "then", <<>>) IN
    Merge(txn, [category |-> OrElse(then, "category", "Uncategorized"),
                venture |-> OrElse(then, "venture", "Uncategorized"),
                requiresReceipt |-> RequiresReceipt(then),
                note |-> OrElse(then, "note", ""),
                audit |-> <<Merge([step |-> "matched_rule", ruleId |-> rule.id,
                                   when |-> rule.when],
                                  Field(rule, "then", "then"))>>])

\* Mutant: the traceability field set on every matched record.
StandardItemWithOrigin(txn, rule) ==
    LET then == OrElse(rule, "then", <<>>) IN
    Merge(txn, [originalTxnId |-> txn.id,
                category |-> OrElse(then, "category", "Uncategorized"),
                venture |-> OrElse(then, "venture", "unassigned"),
                requiresReceipt |-> RequiresReceipt(then),
                note |-> OrElse(then, "note", ""),
                audit |-> <<Merge([step |-> "matched_rule", ruleId |-> rule.id,
                                   when |-> rule.when],
                                  Field(rule, "then", "then"))>>])

StandardItem(txn, rule) ==
    LET then == OrElse(rule, "then", <<>>) IN
    Merge(txn, [category |-> OrElse(then, "category", "Uncategorized"),
                venture |-> OrElse(then, "venture", "unassigned"),
                requiresReceipt |-> RequiresReceipt(then),
                note |-> OrElse(then, "note", ""),
                audit |-> <<Merge([step |-> "matched_rule", ruleId |-> rule.id,
                                   when |-> rule.when],
                                  Field(rule, "then", "then"))>>])

ReceiptAlert(txn, rule) ==
    [type |-> "missing_receipt",
     txnId |-> txn.id,
     message |-> [text |-> "Receipt required for",
                  description |-> txn.description, amount |-> txn.amount],
     ruleId |-> rule.id]

SplitReceiptAlert(txn, rule) ==
    [type |-> "missing_receipt",
     txnId |-> txn.id,
     message |-> [text |-> "Receipt required for",
                  description |-> txn.description, amount |-> txn.amount,
                  splitAcross |-> Len(rule.then.split.items)],
     ruleId |-> rule.id]

\* then.split && Array.isArray(then.split)
IsSplit(then) == Has(then, "split") /\ Truthy(then.split) /\ IsArray(then.split)

\* Mutant: the receipt alert of a split pushed once per leg.
CategorizeOneAlertPerLeg(txn, rules) ==
    LET m == matchRule(txn, rules) IN
    IF m.kind = "throw" THEN Thrown
    ELSE IF m.kind = "null"
    THEN [kind |-> "ok", categorized |-> <<NoMatchItem(txn)>>, alerts |-> <<>>]
    ELSE LET rule == rules[m.index]
             then == OrElse(rule, "then", <<>>)
         IN  IF IsSplit(then)
             THEN [kind |-> "ok",
                   categorized |-> createSplitTransactions(txn, rule),
                   alerts |-> IF RequiresReceipt(then)
                              THEN [k \in 1..Len(then.split.items) |->
                                       SplitReceiptAlert(txn, rule)]
                              ELSE <<>>]
             ELSE [kind |-> "ok",
                   categorized |-> <<StandardItem(txn, rule)>>,
                   alerts |-> IF RequiresReceipt(then)
                              THEN <<ReceiptAlert(txn, rule)>> ELSE <<>>]

\* The body of the loop for one transaction: what it pushes.
CategorizeOne(txn, rules) ==
    LET m == matchRule(txn, rules) IN
    IF m.kind = "throw" THEN Thrown
    ELSE IF m.kind = "null"
    THEN [kind |-> "ok", categorized |-> <<NoMatchItem(txn)>>, alerts |-> <<>>]
    ELSE LET rule == rules[m.index]
             then == OrElse(rule, "then", <<>>)
         IN  IF IsSplit(then)
             THEN [kind |-> "ok",
                   categorized |-> createSplitTransactions(txn, rule),
                   alerts |-> IF RequiresReceipt(then)
                              THEN <<SplitReceiptAlert(txn, rule)>> ELSE <<>>]
             ELSE [kind |-> "ok",
                   categorized |-> <<StandardItem(txn, rule)>>,
                   alerts |-> IF RequiresReceipt(then)
                              THEN <<ReceiptAlert(txn, rule)>> ELSE <<>>]

RECURSIVE CategorizeFrom(_, _, _, _, _)
CategorizeFrom(txns, rules, k, categorized, alerts) ==
    IF k > Len(txns)
    THEN [kind |-> "ok", categorized |-> categorized, alerts |-> alerts]
    ELSE LET one == CategorizeOne(txns[k], rules) IN
         IF one.kind = "throw" THEN Thrown
         ELSE CategorizeFrom(txns, rules, k + 1,
                             categorized \o one.categorized, alerts \o one.alerts)

categorizeTransactions(txns, file) == CategorizeFrom(txns, file.rules, 1, <<>>, <<>>)

(***************************************************************************)
(* The operations of the core, as the callers invoke them                  *)
(***************************************************************************)
NotCalled == [called |-> FALSE]
Called(outcome) == Merge([called |-> TRUE], outcome)

\* No text has been given to the parser.
NoCsv == [source |-> "generic", lines |-> <<>>]
ParserIdle == csv = NoCsv /\ parsed = NotCalled /\ imported = NotCalled

\* The exporter has not been invoked; no web app is running.
ReportIdle == exported = NotCalled /\ summary = NotCalled /\ alertSummary = NotCalled
NoApp == [mounted |-> FALSE]
NoStorage == [item |-> [type |-> "null"], failed |-> FALSE, loaded |-> [called |-> FALSE]]
WebIdle == app = NoApp /\ storage = NoStorage

ValidateRulesFile ==
    /\ ~validation.called
    /\ validation' = Called(validateRulesFile(rulesFile))
    /\ UNCHANGED <<rulesFile, transactions, matched, result, csv, parsed, imported>>
    /\ UNCHANGED <<reportVars, webVars>>

MatchRule ==
    /\ ~matched.called
    /\ Has(rulesFile, "rules")
    /\ \E k \in 1..Len(transactions) :
          matched' = Called(Merge([txn |-> k], matchRule(transactions[k], rulesFile.rules)))
    /\ UNCHANGED <<rulesFile, transactions, validation, result, csv, parsed, imported>>
    /\ UNCHANGED <<reportVars, webVars>>

\* The callers validate first (cli.js: validateRulesFile, then
\* categorizeTransactions); the function itself never reads the outcome.
CategorizeTransactions ==
    /\ validation.called
    /\ ~result.called
    /\ Has(rulesFile, "rules")
    /\ result' = Called(categorizeTransactions(transactions, rulesFile))
    /\ UNCHANGED <<rulesFile, transactions, validation, matched, csv, parsed, imported>>
    /\ UNCHANGED <<reportVars, webVars>>

(***************************************************************************)
(* Inputs                                                                  *)
(***************************************************************************)
MaxTxns == 2
MaxRules == 2

SeqsUpTo(S, n) == UNION {[1..m -> S] : m \in 0..n}

Keyword(text) == Arr(<<text>>)

\* Transactions as the parsers emit them; the id is set by position.
Txn(description, amount) ==
    [date |-> "2025-01-15", description |-> description, amount |-> amount,
     source |-> "generic"]

TxnShapes == { Txn(<<"A", "b">>, Dollars(-3)), Txn(<<"b">>, Dollars(2)) }

WithIds(shapes) ==
    [k \in 1..Len(shapes) |-> Merge(shapes[k], [id |-> <<"t" \o ToString(k)>>])]

TxnLists == {WithIds(shapes) : shapes \in SeqsUpTo(TxnShapes, MaxTxns)}

\* Actions of the documents the categorizer is given.
SimpleThens ==
    { <<>>,
      [category |-> "Software", venture |-> "v1", requiresReceipt |-> TRUE, note |-> "saas"] }

SplitThens ==
    { [category |-> "Shared", venture |-> "v9", note |-> "action note",
       requiresReceipt |-> TRUE,
       split |-> Arr(<<[venture |-> "v1", percent |-> Num(Pct(60, 0)), note |-> "primary"],
                       [venture |-> "v2", percent |-> Num(Pct(40, 0))]>>)],
      [split |-> Arr(<<[venture |-> "v1", percent |-> Num(Pct(100, 0))]>>)],
      [category |-> "Shared",
       split |-> Arr(<<[venture |-> "v1", percent |-> Num(Pct(50, 0))],
                       [venture |-> "v2", percent |-> Num(Pct(50, 1))]>>)],
      [category |-> "Shared", requiresReceipt |-> TRUE, split |-> Arr(<<>>)],
      [category |-> "Shared", venture |-> "v1", split |-> Str(<<"a">>)] }

CatWhens == { <<>>, [contains |-> Keyword(<<"a">>)] }

CatRuleShapes ==
    {[when |-> w, then |-> t] : w \in CatWhens, t \in SimpleThens \cup SplitThens}

WithRuleIds(shapes) ==
    [k \in 1..Len(shapes) |-> Merge(shapes[k], [id |-> "r" \o ToString(k)])]

CatRulesFiles ==
    {[rules |-> WithRuleIds(shapes)] : shapes \in SeqsUpTo(CatRuleShapes, MaxRules)}

Init ==
    /\ rulesFile \in CatRulesFiles
    /\ transactions \in TxnLists
    /\ validation = NotCalled
    /\ matched = NotCalled
    /\ result = NotCalled
    /\ ParserIdle
    /\ ReportIdle
    /\ WebIdle

Next ==
    \/ ValidateRulesFile
    \/ CategorizeTransactions

Spec == Init /\ [][Next]_vars

(***************************************************************************)
(* What the claims about the categorizer speak of                          *)
(***************************************************************************)
Ran == result.called /\ result.kind = "ok"

\* The rule matchRule selects for input transaction k, and its action.
Selected(k) == matchRule(transactions[k], rulesFile.rules)
HasRule(s) == s.kind = "rule"
SelectedRule(s) == rulesFile.rules[s.index]
SelectedThen(s) == SelectedRule(s).then
SplitOf(s) == SelectedThen(s).split.items
HasSplit(s) == HasRule(s) /\ Has(SelectedThen(s), "split") /\ IsArray(SelectedThen(s).split)
NoSplit(s) == HasRule(s) /\ ~Has(SelectedThen(s), "split")

\* The positions of the output records that trace to input transaction k.
IsLegOf(r, txn) == Has(r, "originalTxnId") /\ r.originalTxnId = txn.id
PositionsOf(k) ==
    {p \in 1..Len(result.categorized) :
        \/ result.categorized[p].id = transactions[k].id
        \/ IsLegOf(result.categorized[p], transactions[k])}
LegPositions(k) ==
    {p \in 1..Len(result.categorized) : IsLegOf(result.categorized[p], transactions[k])}
AlertsOf(k) ==
    {p \in 1..Len(result.alerts) : result.alerts[p].txnId = transactions[k].id}

RECURSIVE SumAmounts(_, _)
SumAmounts(records, positions) ==
    IF positions = {} THEN 0
    ELSE LET p == CHOOSE q \in positions : TRUE IN
         records[p].amount + SumAmounts(records, positions \ {p})

\* C2: for a document validateRulesFile accepts, the legs of every split
\* transaction sum to the parent's amount and carry it as originalAmount.
C2_LegsSumToParent ==
    (Ran /\ validation.called /\ validation.ok) =>
        \A k \in 1..Len(transactions) : LET s == Selected(k) IN
            HasSplit(s) =>
                /\ SumAmounts(result.categorized, LegPositions(k)) = transactions[k].amount
                /\ \A p \in LegPositions(k) :
                      result.categorized[p].allocation.originalAmount = transactions[k].amount

\* C4: a transaction no rule matches yields exactly one record: its own
\* fields, the sentinels, a note string and the single no_match audit
\* entry; and no alert.
C4_Sentinels(k) ==
    /\ Cardinality(PositionsOf(k)) = 1
    /\ \A p \in PositionsOf(k) :
          LET r == result.categorized[p] IN
          /\ \A f \in DOMAIN transactions[k] : Has(r, f) /\ r[f] = transactions[k][f]
          /\ r.category = "Uncategorized"
          /\ r.venture = "unassigned"
          /\ r.requiresReceipt = FALSE
          /\ Len(r.audit) = 1
          /\ r.audit[1].step = "no_match"
    /\ AlertsOf(k) = {}

C4_NoMatchRecord ==
    Ran => \A k \in 1..Len(transactions) : LET s == Selected(k) IN
              ~HasRule(s) =>
                  /\ C4_Sentinels(k)
                  /\ \A p \in PositionsOf(k) : Has(result.categorized[p], "note")

\* What does hold of a no-match record: everything C4 says but the note.
NoMatchRecordWithoutNote ==
    Ran => \A k \in 1..Len(transactions) : LET s == Selected(k) IN
              ~HasRule(s) =>
                  /\ C4_Sentinels(k)
                  /\ \A p \in PositionsOf(k) : ~Has(result.categorized[p], "note")

\* C5: a transaction whose selected rule has no split yields exactly one
\* record: the transaction's fields unchanged, category, venture,
\* requiresReceipt and note from the action (with their defaults), and the
\* single matched_rule audit entry of the selected rule.
C5_StandardRecord ==
    Ran => \A k \in 1..Len(transactions) : LET s == Selected(k) IN
              NoSplit(s) =>
                  /\ Cardinality(PositionsOf(k)) = 1
                  /\ \A p \in PositionsOf(k) :
                        LET r == result.categorized[p]
                            txn == transactions[k]
                            then == SelectedThen(s)
                        IN  /\ \A f \in {"id", "date", "description", "amount", "source"} :
                                  Has(r, f) /\ r[f] = txn[f]
                            /\ r.category = IF Has(then, "category") THEN then.category
                                            ELSE "Uncategorized"
                            /\ r.venture = IF Has(then, "venture") THEN then.venture
                                           ELSE "unassigned"
                            /\ r.requiresReceipt = IF Has(then, "requiresReceipt")
                                                   THEN then.requiresReceipt ELSE FALSE
                            /\ r.note = IF Has(then, "note") THEN then.note ELSE ""
                            /\ r.audit = <<[step |-> "matched_rule",
                                            ruleId |-> SelectedRule(s).id,
                                            when |-> SelectedRule(s).when,
                                            then |-> then]>>

C5_Witness ==
    /\ Ran
    /\ \E k \in 1..Len(transactions) : LET s == Selected(k) IN
          /\ NoSplit(s) /\ ~Has(SelectedThen(s), "venture")
          /\ \E p \in PositionsOf(k) : result.categorized[p].venture = "unassigned"
    /\ \E k \in 1..Len(transactions) : LET s == Selected(k) IN
          /\ NoSplit(s) /\ Has(SelectedThen(s), "note")
          /\ \E p \in PositionsOf(k) : result.categorized[p].note = "saas"

\* C6: a transaction whose selected rule has a split of n allocations
\* yields exactly n legs; leg i has id parentId:split:i, originalTxnId
\* parentId, amount parentAmount * percent_i / 100, venture and note of
\* allocation i, category and requiresReceipt of the action, the
\* allocation metadata, and a single split_allocation audit entry with the
\* rule's id.
C6_Leg(k, s, i, r) ==
    LET txn == transactions[k]
        then == SelectedThen(s)
        alloc == SplitOf(s)[i + 1]
    IN  /\ r.id = txn.id \o <<":split:", ToString(i)>>
        /\ r.originalTxnId = txn.id
        /\ r.amount * HundredPercent * PercentScale = txn.amount * alloc.percent.n
        /\ r.venture = alloc.venture
        /\ r.note = IF Has(alloc, "note") THEN alloc.note ELSE ""
        /\ r.category = IF Has(then, "category") THEN then.category ELSE "Uncategorized"
        /\ r.requiresReceipt = IF Has(then, "requiresReceipt")
                               THEN then.requiresReceipt ELSE FALSE
        /\ r.allocation = [percent |-> alloc.percent, originalAmount |-> txn.amount,
                           splitIndex |-> i, totalSplits |-> Len(SplitOf(s))]
        /\ Len(r.audit) = 1
        /\ r.audit[1].step = "split_allocation"
        /\ r.audit[1].ruleId = SelectedRule(s).id

C6_SplitLegs ==
    Ran => \A k \in 1..Len(transactions) : LET s == Selected(k) IN
              HasSplit(s) =>
                  /\ Cardinality(PositionsOf(k)) = Len(SplitOf(s))
                  /\ \A i \in 0..(Len(SplitOf(s)) - 1) :
                        \E p \in PositionsOf(k) :
                            /\ result.categorized[p].allocation.splitIndex = i
                            /\ C6_Leg(k, s, i, result.categorized[p])

C6_Witness ==
    /\ Ran
    /\ \E k \in 1..Len(transactions) : LET s == Selected(k) IN
          /\ HasSplit(s) /\ Len(SplitOf(s)) = 2
          /\ Has(SelectedThen(s), "venture") /\ Has(SelectedThen(s), "note")
          /\ Cardinality(LegPositions(k)) = 2
          /\ \E p \in LegPositions(k) : result.categorized[p].amount = (Dollars(-3) * 60) \div 100

\* C7: the alerts are exactly one missing_receipt alert per input
\* transaction whose selected action has requiresReceipt true (one for a
\* split parent, not one per leg), each with the transaction's id and the
\* selected rule's id, in input order.
NeedsReceipt(s) ==
    /\ HasRule(s)
    /\ Has(SelectedThen(s), "requiresReceipt")
    /\ SelectedThen(s).requiresReceipt = TRUE

TxnIndexOf(id) == CHOOSE k \in 1..Len(transactions) : transactions[k].id = id

C7_OneAlertPerReceipt ==
    Ran =>
        /\ \A k \in 1..Len(transactions) : LET s == Selected(k) IN
              IF NeedsReceipt(s)
              THEN /\ Cardinality(AlertsOf(k)) = 1
                   /\ \A p \in AlertsOf(k) :
                         /\ result.alerts[p].type = "missing_receipt"
                         /\ result.alerts[p].ruleId = SelectedRule(s).id
              ELSE AlertsOf(k) = {}
        /\ \A p \in 1..Len(result.alerts) :
              \E k \in 1..Len(transactions) : p \in AlertsOf(k)
        /\ \A p, q \in 1..Len(result.alerts) :
              p < q => TxnIndexOf(result.alerts[p].txnId) < TxnIndexOf(result.alerts[q].txnId)

C7_Witness ==
    /\ Ran
    /\ Len(result.alerts) = 2
    /\ \E k \in 1..Len(transactions) : LET s == Selected(k) IN
          HasSplit(s) /\ NeedsReceipt(s) /\ Cardinality(LegPositions(k)) = 2
    /\ \E k \in 1..Len(transactions) : LET s == Selected(k) IN NoSplit(s) /\ NeedsReceipt(s)

\* C8: the categorized list keeps input order: the records of input j
\* precede those of input k when j < k, and the legs of one parent are
\* contiguous, in allocation order.
SourceOf(p) == CHOOSE k \in 1..Len(transactions) : p \in PositionsOf(k)

C8_InputOrder ==
    Ran =>
        /\ \A p \in 1..Len(result.categorized) :
              \E k \in 1..Len(transactions) : p \in PositionsOf(k)
        /\ \A p, q \in 1..Len(result.categorized) :
              p < q => SourceOf(p) <= SourceOf(q)
        /\ \A k \in 1..Len(transactions) :
              \A p \in LegPositions(k) :
                  LET i == result.categorized[p].allocation.splitIndex IN
                  /\ p - i \in LegPositions(k)
                  /\ result.categorized[p - i].allocation.splitIndex = 0
                  /\ \A q \in (p - i)..p : q \in LegPositions(k)

C8_Witness ==
    /\ Ran
    /\ Len(transactions) = 2
    /\ Len(result.categorized) = 3
    /\ HasSplit(Selected(1)) /\ LegPositions(1) = {1, 2}
    /\ result.categorized[3].id = transactions[2].id

\* C9: a record carries allocation and originalTxnId exactly when a split
\* produced it; a no-match or non-split record carries neither.
C9_SplitFieldsOnlyOnLegs ==
    Ran => \A p \in 1..Len(result.categorized) :
              LET r == result.categorized[p] IN
              IF r.audit[1].step = "split_allocation"
              THEN Has(r, "allocation") /\ Has(r, "originalTxnId")
              ELSE ~Has(r, "allocation") /\ ~Has(r, "originalTxnId")

C9_Witness ==
    /\ Ran
    /\ \E p \in 1..Len(result.categorized) :
          result.categorized[p].audit[1].step = "split_allocation"
    /\ \E p \in 1..Len(result.categorized) :
          result.categorized[p].audit[1].step = "matched_rule"

(***************************************************************************)
(* The rule selector on its own: documents whose rules differ in priority  *)
(* and in the transactions they match                                      *)
(***************************************************************************)
MaxPriorityRules == 3

PriorityWhens ==
    { <<>>, [contains |-> Keyword(<<"a">>)], [amount_gt |-> Num(0)] }

PriorityRuleShapes ==
    {[when |-> w, then |-> [category |-> "Software"]] : w \in PriorityWhens}
    \cup {[priority |-> p, when |-> w, then |-> [category |-> "Software"]] :
             p \in {-1, 0, 1}, w \in PriorityWhens}

PriorityRulesFiles ==
    {[rules |-> WithRuleIds(shapes)] :
        shapes \in SeqsUpTo(PriorityRuleShapes, MaxPriorityRules)}

InitMatch ==
    /\ rulesFile \in PriorityRulesFiles
    /\ transactions \in {WithIds(<<shape>>) : shape \in TxnShapes}
    /\ validation = NotCalled
    /\ matched = NotCalled
    /\ result = NotCalled
    /\ ParserIdle
    /\ ReportIdle
    /\ WebIdle

NextMatch == MatchRule

SpecMatch == InitMatch /\ [][NextMatch]_vars

\* The rules of the document whose condition matches transaction k.
MatchingRules(k) ==
    {i \in 1..Len(rulesFile.rules) :
        matchesWhen(transactions[k], rulesFile.rules[i].when) = "true"}

DeclaredPriority(i) ==
    IF "priority" \in DOMAIN rulesFile.rules[i] THEN rulesFile.rules[i].priority ELSE 0

\* C1: matchRule returns, among the rules that match, the one of greatest
\* priority (a missing priority counts as 0), the earliest declared of
\* those; it returns null exactly when no rule matches.
C1_HighestPriorityEarliest ==
    (matched.called /\ matched.kind # "throw") =>
        LET M == MatchingRules(matched.txn) IN
        IF M = {} THEN matched.kind = "null"
        ELSE /\ matched.kind = "rule"
             /\ matched.index \in M
             /\ \A j \in M :
                   \/ DeclaredPriority(j) < DeclaredPriority(matched.index)
                   \/ /\ DeclaredPriority(j) = DeclaredPriority(matched.index)
                      /\ matched.index <= j

C1_Witness ==
    /\ matched.called
    /\ matched.kind = "rule"
    /\ matched.index = 2
    /\ MatchingRules(matched.txn) = {1, 2, 3}
    /\ ~Has(rulesFile.rules[2], "priority")
    /\ DeclaredPriority(1) < 0
    /\ DeclaredPriority(3) = 0

(***************************************************************************)
(* One rule, one transaction: the condition of the rule is any combination *)
(* of the seven clauses.                                                   *)
(***************************************************************************)
ClauseNames ==
    {"contains", "any_contains", "all_contains", "regex",
     "amount_gt", "amount_lt", "amount_between"}

\* The condition that has the one clause `name`.
OnlyClause(name, value) == [c \in {name} |-> value]

\* The clause left out of the condition, or present with one of the values.
OptionalClause(name, values) == {<<>>} \cup {OnlyClause(name, v) : v \in values}

ContainsClauses ==
    OptionalClause("contains", {Keyword(<<"b">>), Keyword(<<"A", "b">>), Arr(<<>>)})

AnyContainsClauses ==
    OptionalClause("any_contains", {Keyword(<<"A">>), Keyword(<<"b">>), Arr(<<>>)})

AllContainsClauses ==
    OptionalClause("all_contains",
        {Arr(<< <<"a">>, <<"B">> >>), Keyword(<<"b">>), Arr(<<>>)})

RegexClauses ==
    OptionalClause("regex",
        {Str(<<"a">>), Str(<<>>), [type |-> "object", pattern |-> <<"(">>]})

AmountGtClauses ==
    OptionalClause("amount_gt", {Num(Dollars(-4)), Num(0), Str(<<"0">>)})

AmountLtClauses == OptionalClause("amount_lt", {Num(0), Num(Dollars(-3))})

AmountBetweenClauses ==
    OptionalClause("amount_between",
        {[min |-> Num(Dollars(-3)), max |-> Num(0)],
         [min |-> Str(<<"0">>), max |-> Num(0)]})

WhenShapes ==
    {Merge(c, Merge(a, Merge(l, Merge(r, Merge(g, Merge(t, b)))))) :
        c \in ContainsClauses, a \in AnyContainsClauses, l \in AllContainsClauses,
        r \in RegexClauses, g \in AmountGtClauses, t \in AmountLtClauses,
        b \in AmountBetweenClauses}

WhenRulesFiles ==
    {[rules |-> WithRuleIds(<<[when |-> w, then |-> [category |-> "Software"]]>>)] :
        w \in WhenShapes}

WhenTxnShapes ==
    {Txn(d, a) : d \in {<<"A", "b">>, <<"b">>}, a \in {Dollars(-3), 0, Dollars(2)}}

InitWhen ==
    /\ rulesFile \in WhenRulesFiles
    /\ transactions \in {WithIds(<<shape>>) : shape \in WhenTxnShapes}
    /\ validation = NotCalled
    /\ matched = NotCalled
    /\ result = NotCalled
    /\ ParserIdle
    /\ ReportIdle
    /\ WebIdle

NextWhen == MatchRule

SpecWhen == InitWhen /\ [][NextWhen]_vars

\* The clause `name` of the condition passes on its own: the condition that
\* has this clause and no other matches the transaction.
PassesAlone(txn, when, name) ==
    matchesWhen(txn, OnlyClause(name, when[name])) = "true"

\* C10: the condition of a rule matches a transaction exactly when each
\* clause present in it passes on its own; a condition without clauses
\* matches every transaction; `contains` and `any_contains`, when both are
\* present, must each pass.
C10_ConjunctionOfClauses ==
    matched.called =>
        LET txn == transactions[matched.txn]
            when == rulesFile.rules[1].when
            present == DOMAIN when \cap ClauseNames
        IN  /\ (matched.kind = "rule") <=>
                   (\A name \in present : PassesAlone(txn, when, name))
            /\ present = {} => matched.kind = "rule"
            /\ ({"contains", "any_contains"} \subseteq present /\ matched.kind = "rule")
                   => /\ PassesAlone(txn, when, "contains")
                      /\ PassesAlone(txn, when, "any_contains")

\* All seven clauses are present and evaluated, and the rule is selected.
C10_Witness ==
    /\ matched.called
    /\ matched.kind = "rule"
    /\ DOMAIN rulesFile.rules[1].when = ClauseNames
    /\ rulesFile.rules[1].when.contains = Keyword(<<"b">>)
    /\ rulesFile.rules[1].when.any_contains = Keyword(<<"A">>)
    /\ rulesFile.rules[1].when.regex = Str(<<"a">>)
    /\ IsNumber(rulesFile.rules[1].when.amount_gt)

\* `contains` passes, `any_contains` does not, and the rule is not selected.
C10_WitnessIndependent ==
    /\ matched.called
    /\ matched.kind = "null"
    /\ DOMAIN rulesFile.rules[1].when = {"contains", "any_contains"}
    /\ PassesAlone(transactions[1], rulesFile.rules[1].when, "contains")
    /\ ~PassesAlone(transactions[1], rulesFile.rules[1].when, "any_contains")

(***************************************************************************)
(* Rules documents whose splits are well formed or not, given to the       *)
(* validator.                                                              *)
(***************************************************************************)
MaxValRules == 2
\* Allocations in one document, all its splits together.
MaxAllocs == 3

AllocShapes ==
    { [venture |-> "v1", percent |-> Num(Pct(50, 0))],
      [venture |-> "v2", percent |-> Num(Pct(50, 1))],
      [venture |-> "v2", percent |-> Num(Pct(49, PercentScale - 3))],
      [venture |-> "v1", percent |-> Num(0)],
      [venture |-> "v1", percent |-> Str(<<"5", "0">>)],
      [percent |-> Num(Pct(50, 0))] }

PlainRule == [when |-> <<>>, then |-> [category |-> "Software"]]

\* Rules without an allocation: no split, an empty split, a split that is
\* not an array, and a rule without `when`.
NoAllocRuleShapes ==
    { PlainRule,
      [when |-> <<>>, then |-> [category |-> "Shared", split |-> Arr(<<>>)]],
      [when |-> <<>>, then |-> [category |-> "Shared", split |-> Str(<<"a">>)]],
      [then |-> [category |-> "Software"]] }

\* The allocations of the first n rules when rule k has counts[k] of them.
RECURSIVE Total(_, _)
Total(counts, n) == IF n = 0 THEN 0 ELSE Total(counts, n - 1) + counts[n]

\* Rule k of a document: its split is its share of the allocations, or it
\* is shapes[k] when it has none.
ValRule(counts, allocs, shapes, k) ==
    IF counts[k] = 0 THEN shapes[k]
    ELSE [when |-> <<>>,
          then |-> [category |-> "Shared",
                    split |-> Arr(SubSeq(allocs, Total(counts, k - 1) + 1,
                                         Total(counts, k)))]]

\* Documents of at most MaxValRules rules with at most MaxAllocs allocations.
InitValidate ==
    /\ \E m \in 0..MaxValRules :
       \E counts \in [1..m -> 0..MaxAllocs] :
          /\ Total(counts, m) <= MaxAllocs
          /\ \E allocs \in [1..Total(counts, m) -> AllocShapes] :
             \E shapes \in [1..m -> NoAllocRuleShapes] :
                /\ \A k \in 1..m : counts[k] > 0 => shapes[k] = PlainRule
                /\ rulesFile =
                      [rules |-> WithRuleIds([k \in 1..m |->
                                     ValRule(counts, allocs, shapes, k)])]
    /\ transactions = <<>>
    /\ validation = NotCalled
    /\ matched = NotCalled
    /\ result = NotCalled
    /\ ParserIdle
    /\ ReportIdle
    /\ WebIdle

NextValidate == ValidateRulesFile

SpecValidate == InitValidate /\ [][NextValidate]_vars

MissingVenture(allocation) ==
    ~("venture" \in DOMAIN allocation) \/ allocation.venture = ""

NotPositiveNumber(allocation) ==
    \/ ~("percent" \in DOMAIN allocation)
    \/ allocation.percent.type # "number"
    \/ allocation.percent.n <= 0

RECURSIVE SumPercents(_, _)
SumPercents(items, n) ==
    IF n = 0 THEN 0 ELSE SumPercents(items, n - 1) + items[n].percent.n

\* The total is further than 0.01 from 100.
OutsideTolerance(total) ==
    \/ ToleranceDivisor * (total - HundredPercent * PercentScale) > PercentScale
    \/ ToleranceDivisor * (HundredPercent * PercentScale - total) > PercentScale

\* The rule has a split that is a list of allocations.
HasSplitList(rule) ==
    /\ "when" \in DOMAIN rule
    /\ "then" \in DOMAIN rule
    /\ "split" \in DOMAIN rule.then
    /\ rule.then.split.type = "array"

\* The message of the first violation of a split, allocation by allocation,
\* the sum last; "none" for a split without violation.
SplitViolation(items) ==
    LET bad == {i \in 1..Len(items) :
                   MissingVenture(items[i]) \/ NotPositiveNumber(items[i])}
    IN  IF bad # {}
        THEN LET first == CHOOSE i \in bad : \A j \in bad : i <= j IN
             IF MissingVenture(items[first])
             THEN "split allocation missing venture"
             ELSE "split allocation percent must be a positive number"
        ELSE IF OutsideTolerance(SumPercents(items, Len(items)))
        THEN "split percentages must sum to 100"
        ELSE "none"

\* Rule i of the document passes every check of the validator.
RuleIsValid(i) ==
    LET rule == rulesFile.rules[i] IN
    /\ "when" \in DOMAIN rule
    /\ "then" \in DOMAIN rule
    /\ "split" \in DOMAIN rule.then =>
          /\ rule.then.split.type = "array"
          /\ SplitViolation(rule.then.split.items) = "none"

\* C3: validateRulesFile returns true only if every split of the document
\* has allocations with a venture and a positive numeric percent that sum to
\* 100 within 0.01; otherwise, when the first invalid rule of the document
\* has an ill-formed split, the error names that rule and is the first
\* violation of its split (allocation by allocation, the sum last).
C3_SplitValidation ==
    validation.called =>
        LET rules == rulesFile.rules
            invalid == {i \in 1..Len(rules) : ~RuleIsValid(i)}
        IN  /\ validation.ok =>
                  \A i \in 1..Len(rules) :
                      HasSplitList(rules[i]) =>
                          SplitViolation(rules[i].then.split.items) = "none"
            /\ invalid # {} =>
                  /\ ~validation.ok
                  /\ LET first == CHOOSE i \in invalid : \A j \in invalid : i <= j IN
                     HasSplitList(rules[first]) =>
                        /\ validation.ruleId = rules[first].id
                        /\ validation.error = SplitViolation(rules[first].then.split.items)

\* The first rule has a split within the tolerance, the second one an
\* allocation without venture: the error names the second rule.
C3_Witness ==
    /\ validation.called
    /\ ~validation.ok
    /\ Len(rulesFile.rules) = 2
    /\ HasSplitList(rulesFile.rules[1])
    /\ Len(rulesFile.rules[1].then.split.items) = 2
    /\ SplitViolation(rulesFile.rules[1].then.split.items) = "none"
    /\ SumPercents(rulesFile.rules[1].then.split.items, 2) = Pct(100, 1)
    /\ validation.ruleId = "r2"
    /\ validation.error = "split allocation missing venture"

(***************************************************************************)
(* The single clauses, under SpecWhen                                      *)
(***************************************************************************)
\* The rule of the document, its condition and the transaction given to
\* matchRule.
TheWhen == rulesFile.rules[1].when
TheTxn == transactions[matched.txn]

\* The condition has the clause `name` and no other.
OnlyHas(name) == DOMAIN TheWhen = {name}

\* The lower-cased description contains the lower-cased keyword.
ContainsKeyword(txn, keyword) ==
    \E at \in 0..Len(txn.description) :
        /\ at + Len(keyword) <= Len(txn.description)
        /\ \A i \in 1..Len(keyword) :
              LowerChar(txn.description[at + i]) = LowerChar(keyword[i])

KeywordsOf(name) == TheWhen[name].items

AtLeastOneKeyword(name) ==
    \E i \in 1..Len(KeywordsOf(name)) : ContainsKeyword(TheTxn, KeywordsOf(name)[i])

EveryKeyword(name) ==
    \A i \in 1..Len(KeywordsOf(name)) : ContainsKeyword(TheTxn, KeywordsOf(name)[i])

\* C11: an any_contains clause, and likewise a contains clause, passes
\* exactly when the lower-cased description contains at least one
\* lower-cased keyword of its list; an all_contains clause passes exactly
\* when it contains every keyword.
C11_KeywordClauses ==
    matched.called =>
        /\ \A name \in {"contains", "any_contains"} :
              OnlyHas(name) => ((matched.kind = "rule") <=> AtLeastOneKeyword(name))
        /\ OnlyHas("all_contains") =>
              ((matched.kind = "rule") <=> EveryKeyword("all_contains"))

\* The same with an any_contains or contains list of no keyword left aside:
\* such a clause passes, although no keyword is contained.
KeywordClausesNonEmpty ==
    matched.called =>
        /\ \A name \in {"contains", "any_contains"} :
              OnlyHas(name) =>
                 IF KeywordsOf(name) = <<>> THEN matched.kind = "rule"
                 ELSE (matched.kind = "rule") <=> AtLeastOneKeyword(name)
        /\ OnlyHas("all_contains") =>
              ((matched.kind = "rule") <=> EveryKeyword("all_contains"))

\* What the amount clause `name` of the condition requires of the amount.
AmountTest(name) ==
    LET v == TheWhen[name] IN
    IF name = "amount_gt" THEN v.type = "number" /\ TheTxn.amount > v.n
    ELSE IF name = "amount_lt" THEN v.type = "number" /\ TheTxn.amount < v.n
    ELSE /\ v.min.type = "number" /\ v.max.type = "number"
         /\ v.min.n <= TheTxn.amount /\ TheTxn.amount <= v.max.n

AmountClauseNames == {"amount_gt", "amount_lt", "amount_between"}

\* C12: amount_gt passes exactly when the amount is strictly greater than
\* its value, amount_lt exactly when it is strictly less, amount_between
\* exactly when the amount lies between min and max, bounds included; and
\* no amount clause present in a condition is skipped: a rule is selected
\* only if each of them is satisfied.
C12_AmountClauses ==
    (matched.called /\ matched.kind # "throw") =>
        /\ \A name \in AmountClauseNames :
              OnlyHas(name) => ((matched.kind = "rule") <=> AmountTest(name))
        /\ matched.kind = "rule" =>
              \A name \in DOMAIN TheWhen \cap AmountClauseNames : AmountTest(name)

\* The same for the amount clauses whose value is a number: an amount_gt
\* that is not a number is not evaluated.
AmountClausesNumeric ==
    (matched.called /\ matched.kind # "throw") =>
        /\ \A name \in AmountClauseNames :
              OnlyHas(name) =>
                 IF name = "amount_gt" /\ TheWhen[name].type # "number"
                 THEN matched.kind = "rule"
                 ELSE (matched.kind = "rule") <=> AmountTest(name)
        /\ matched.kind = "rule" =>
              \A name \in DOMAIN TheWhen \cap AmountClauseNames :
                 (name = "amount_gt" /\ TheWhen[name].type # "number")
                    \/ AmountTest(name)

(***************************************************************************)
(* Documents with rules that cannot be evaluated: amount_between bounds    *)
(* that are not numbers, and patterns that do not compile.                 *)
(***************************************************************************)
MaxFaultyRules == 2

MalformedBetween == [min |-> Str(<<"0">>), max |-> Num(0)]
InvalidPattern == [type |-> "object", pattern |-> <<"(">>]

FaultyWhens ==
    { <<>>,
      [contains |-> Keyword(<<"a">>)],
      [amount_between |-> MalformedBetween],
      [contains |-> Keyword(<<"a">>), amount_between |-> MalformedBetween],
      [regex |-> InvalidPattern] }

FaultyRuleShapes ==
    {[when |-> w, then |-> [category |-> "Software"]] : w \in FaultyWhens}
    \cup {[priority |-> 1, when |-> w, then |-> [category |-> "Software"]] :
             w \in FaultyWhens}

FaultyRulesFiles ==
    {[rules |-> WithRuleIds(shapes)] :
        shapes \in SeqsUpTo(FaultyRuleShapes, MaxFaultyRules)}

InitFaulty ==
    /\ rulesFile \in FaultyRulesFiles
    /\ transactions \in TxnLists
    /\ validation = NotCalled
    /\ matched = NotCalled
    /\ result = NotCalled
    /\ ParserIdle
    /\ ReportIdle
    /\ WebIdle

NextFaulty ==
    \/ ValidateRulesFile
    \/ MatchRule
    \/ CategorizeTransactions

SpecFaulty == InitFaulty /\ [][NextFaulty]_vars

\* Rule j is tried before rule i: greater priority, or the same and declared
\* earlier.
TriedBefore(j, i) ==
    \/ DeclaredPriority(j) > DeclaredPriority(i)
    \/ DeclaredPriority(j) = DeclaredPriority(i) /\ j < i

\* Rule i has an amount_between whose min or max is not a number.
HasMalformedBetween(i) ==
    LET when == rulesFile.rules[i].when IN
    /\ "amount_between" \in DOMAIN when
    /\ \/ ~("min" \in DOMAIN when.amount_between)
       \/ ~("max" \in DOMAIN when.amount_between)
       \/ when.amount_between.min.type # "number"
       \/ when.amount_between.max.type # "number"

\* Rule i is evaluated for transaction k: no rule tried before it matches.
Evaluated(i, k) ==
    \A j \in 1..Len(rulesFile.rules) :
        TriedBefore(j, i) => matchesWhen(transactions[k], rulesFile.rules[j].when) # "true"

\* Some rule with malformed bounds is evaluated for transaction k.
MalformedEvaluated(k) ==
    \E i \in 1..Len(rulesFile.rules) : HasMalformedBetween(i) /\ Evaluated(i, k)

\* C13: evaluating a rule whose amount_between has a min or max that is not
\* a number raises an error, whatever the other clauses of its condition:
\* matchRule throws, and categorizeTransactions throws and returns neither a
\* categorized list nor alerts.
C13_MalformedBoundsRaise ==
    /\ (matched.called /\ MalformedEvaluated(matched.txn)) => matched.kind = "throw"
    /\ (result.called /\ \E k \in 1..Len(transactions) : MalformedEvaluated(k)) =>
          /\ result.kind = "throw"
          /\ ~("categorized" \in DOMAIN result)
          /\ ~("alerts" \in DOMAIN result)

\* The keyword clause of rule i, if it has one, passes for transaction k.
KeywordsPass(i, k) ==
    LET when == rulesFile.rules[i].when IN
    "contains" \in DOMAIN when =>
        \E n \in 1..Len(when.contains.items) :
            ContainsKeyword(transactions[k], when.contains.items[n])

\* The same when the clauses before amount_between pass: the bounds are
\* looked at only then.
MalformedBoundsRaiseWhenReached ==
    /\ (matched.called
          /\ \E i \in 1..Len(rulesFile.rules) :
                /\ HasMalformedBetween(i)
                /\ Evaluated(i, matched.txn)
                /\ KeywordsPass(i, matched.txn))
          => matched.kind = "throw"
    /\ (result.called
          /\ \E k \in 1..Len(transactions) : \E i \in 1..Len(rulesFile.rules) :
                HasMalformedBetween(i) /\ Evaluated(i, k) /\ KeywordsPass(i, k))
          => /\ result.kind = "throw"
             /\ ~("categorized" \in DOMAIN result)
             /\ ~("alerts" \in DOMAIN result)

\* The pattern of rule i does not compile.
HasInvalidRegex(i) ==
    LET when == rulesFile.rules[i].when IN
    /\ "regex" \in DOMAIN when
    /\ "(" \in Range(IF when.regex.type = "string" THEN when.regex.s
                     ELSE when.regex.pattern)

\* The rules that match transaction k, those with an invalid pattern left out.
SoundMatches(k) ==
    {i \in 1..Len(rulesFile.rules) :
        /\ ~HasInvalidRegex(i)
        /\ matchesWhen(transactions[k], rulesFile.rules[i].when) = "true"}

NoMalformedBetween == \A i \in 1..Len(rulesFile.rules) : ~HasMalformedBetween(i)

\* C14: a rule whose pattern does not compile is never selected and raises
\* nothing: matchRule returns what it returns without that rule, the first
\* in priority order of the other rules that match, and
\* categorizeTransactions returns a record for every input transaction.
C14_InvalidRegexNeverMatches ==
    /\ matched.called =>
          /\ matched.kind = "rule" => ~HasInvalidRegex(matched.index)
          /\ NoMalformedBetween =>
                LET M == SoundMatches(matched.txn) IN
                IF M = {} THEN matched.kind = "null"
                ELSE /\ matched.kind = "rule"
                     /\ matched.index \in M
                     /\ \A j \in M : j = matched.index \/ TriedBefore(matched.index, j)
    /\ (result.called /\ NoMalformedBetween) =>
          /\ result.kind = "ok"
          /\ Len(result.categorized) = Len(transactions)
          /\ \A k \in 1..Len(transactions) :
                result.categorized[k].id = transactions[k].id

\* The rule tried first has an invalid pattern; the other rule is selected,
\* and both transactions are categorized.
C14_Witness ==
    /\ Len(rulesFile.rules) = 2
    /\ HasInvalidRegex(1)
    /\ DeclaredPriority(1) = 1
    /\ DeclaredPriority(2) = 0
    /\ matched.called
    /\ matched.kind = "rule"
    /\ matched.index = 2
    /\ result.called
    /\ result.kind = "ok"
    /\ Len(result.categorized) = 2

(***************************************************************************)
(* parsers/_shared.js                                                      *)
(*                                                                         *)
(* A CSV text is the sequence of its lines (what split(/\r?\n/) returns),  *)
(* each line a sequence of one-character strings.  A JavaScript number     *)
(* that a parser computes is Finite(n), n in units of 1/AmountScale,       *)
(* Infinite(sign) or NaN.  undefined is Undefined.                         *)
(***************************************************************************)
Undefined == [defined |-> FALSE]
Defined(s) == [defined |-> TRUE, s |-> s]

\* cols[k] for the 0-based index k - 1.
At(cols, k) == IF k \in 1..Len(cols) THEN Defined(cols[k]) ELSE Undefined

Whitespace == {" ", "\t"}

RECURSIVE trimStart(_)
trimStart(s) == IF s # <<>> /\ Head(s) \in Whitespace THEN trimStart(Tail(s)) ELSE s

RECURSIVE trimEnd(_)
trimEnd(s) ==
    IF s # <<>> /\ s[Len(s)] \in Whitespace THEN trimEnd(SubSeq(s, 1, Len(s) - 1)) ELSE s

trim(s) == trimEnd(trimStart(s))

\* The loop of splitCsvLine from character i on.
RECURSIVE SplitFrom(_, _, _, _, _)
SplitFrom(line, i, cur, inQuotes, columns) ==
    IF i > Len(line) THEN Append(columns, cur)
    ELSE IF line[i] = "\"" THEN SplitFrom(line, i + 1, cur, ~inQuotes, columns)
    ELSE IF line[i] = "," /\ ~inQuotes
    THEN SplitFrom(line, i + 1, <<>>, inQuotes, Append(columns, cur))
    ELSE SplitFrom(line, i + 1, Append(cur, line[i]), inQuotes, columns)

splitCsvLine(line) ==
    LET columns == SplitFrom(line, 1, <<>>, FALSE, <<>>) IN
    [k \in 1..Len(columns) |-> trim(columns[k])]

\* idx[key] of indexMap(headers): the last column of that name, 1-based;
\* 0 when no column has it.
indexMap(headers, key) ==
    IF \E i \in 1..Len(headers) : headers[i] = key
    THEN CHOOSE i \in 1..Len(headers) :
            /\ headers[i] = key
            /\ \A j \in 1..Len(headers) : headers[j] = key => j <= i
    ELSE 0

\* pickKey returns null when no candidate is a header.
NoKey == <<>>

RECURSIVE pickKey(_, _)
pickKey(headers, candidates) ==
    IF candidates = <<>> THEN NoKey
    ELSE IF indexMap(headers, Head(candidates)) # 0 THEN Head(candidates)
    ELSE pickKey(headers, Tail(candidates))

Digits == <<"0", "1", "2", "3", "4", "5", "6", "7", "8", "9">>
IsDigit(c) == \E d \in 1..10 : Digits[d] = c
DigitValue(c) == (CHOOSE d \in 1..10 : Digits[d] = c) - 1
AllDigits(s) == \A i \in 1..Len(s) : IsDigit(s[i])

\* /^\d{4}-\d{2}-\d{2}$/
IsIsoDate(t) ==
    /\ Len(t) = 10
    /\ t[5] = "-" /\ t[8] = "-"
    /\ \A i \in {1, 2, 3, 4, 6, 7, 9, 10} : IsDigit(t[i])

\* The positions of "/" in t.
Slashes(t) == {i \in 1..Len(t) : t[i] = "/"}

\* String(m).padStart(2, "0")
padStart2(s) == IF Len(s) < 2 THEN <<"0">> \o s ELSE s

\* normalizeDate returns null for a date in neither convention.
NoDate == <<>>

normalizeDate(cell) ==
    IF ~cell.defined \/ cell.s = <<>> THEN NoDate
    ELSE LET t == trim(cell.s) IN
         IF IsIsoDate(t) THEN t
         ELSE IF Cardinality(Slashes(t)) = 2
         THEN LET first == CHOOSE i \in Slashes(t) : \A j \in Slashes(t) : i <= j
                  second == CHOOSE i \in Slashes(t) : \A j \in Slashes(t) : j <= i
                  month == SubSeq(t, 1, first - 1)
                  day == SubSeq(t, first + 1, second - 1)
                  year == SubSeq(t, second + 1, Len(t))
              IN  IF /\ Len(month) \in {1, 2} /\ AllDigits(month)
                     /\ Len(day) \in {1, 2} /\ AllDigits(day)
                     /\ Len(year) = 4 /\ AllDigits(year)
                  THEN year \o <<"-">> \o padStart2(month) \o <<"-">> \o padStart2(day)
                  ELSE NoDate
         ELSE NoDate

Finite(n) == [nan |-> FALSE, finite |-> TRUE, n |-> n]
Infinite(sign) == [nan |-> FALSE, finite |-> FALSE, sign |-> sign]
NaN == [nan |-> TRUE, finite |-> FALSE]

RECURSIVE DigitsValue(_)
DigitsValue(s) ==
    IF s = <<>> THEN 0 ELSE 10 * DigitsValue(SubSeq(s, 1, Len(s) - 1)) + DigitValue(s[Len(s)])

\* The digits after the decimal point, in units of 1/AmountScale; amounts
\* have at most three of them.
FractionDigits == 3

RECURSIVE FractionValue(_, _)
FractionValue(s, unit) ==
    IF s = <<>> THEN 0
    ELSE DigitValue(Head(s)) * (unit \div 10) + FractionValue(Tail(s), unit \div 10)

\* Number(t) for an unsigned t: decimal digits with an optional fraction.
UnsignedNumber(t) ==
    LET dots == {i \in 1..Len(t) : t[i] = "."} IN
    IF t = <<"I", "n", "f", "i", "n", "i", "t", "y">> THEN Infinite(1)
    ELSE IF dots = {}
    THEN IF t # <<>> /\ AllDigits(t) THEN Finite(DigitsValue(t) * AmountScale) ELSE NaN
    ELSE IF Cardinality(dots) = 1
    THEN LET dot == CHOOSE i \in dots : TRUE
             whole == SubSeq(t, 1, dot - 1)
             fraction == SubSeq(t, dot + 1, Len(t))
         IN  IF /\ AllDigits(whole) /\ AllDigits(fraction)
                /\ Len(whole) + Len(fraction) > 0
                /\ Len(fraction) <= FractionDigits
             THEN Finite(DigitsValue(whole) * AmountScale
                         + FractionValue(fraction, AmountScale))
             ELSE NaN
    ELSE NaN

Negate(x) ==
    IF x.nan THEN NaN
    ELSE IF x.finite THEN Finite(-x.n)
    ELSE Infinite(-x.sign)

\* Number(t): the empty string is 0.
Number(t) ==
    IF t = <<>> THEN Finite(0)
    ELSE IF Head(t) = "-" THEN Negate(UnsignedNumber(Tail(t)))
    ELSE IF Head(t) = "+" THEN UnsignedNumber(Tail(t))
    ELSE UnsignedNumber(t)

\* replace(/[$,]/g, "")
StripCurrency(s) == SelectSeq(s, LAMBDA c : c \notin {"$", ","})

normalizeAmount(cell) ==
    IF ~cell.defined THEN NaN ELSE Number(trim(StripCurrency(cell.s)))

MathAbs(x) ==
    IF x.nan THEN NaN
    ELSE IF x.finite THEN Finite(Abs(x.n))
    ELSE Infinite(1)

\* The printable ASCII characters, from code 32 on (code 96 by its name).
Ascii ==
    << " ", "!", "\"", "#", "$", "%", "&", "'", "(", ")", "*", "+",
       ",", "-", ".", "/", "0", "1", "2", "3", "4", "5", "6", "7",
       "8", "9", ":", ";", "<", "=", ">", "?", "@", "A", "B", "C",
       "D", "E", "F", "G", "H", "I", "J", "K", "L", "M", "N", "O",
       "P", "Q", "R", "S", "T", "U", "V", "W", "X", "Y", "Z", "[",
       "\\", "]", "^", "_", "grave", "a", "b", "c", "d", "e", "f", "g",
       "h", "i", "j", "k", "l", "m", "n", "o", "p", "q", "r", "s",
       "t", "u", "v", "w", "x", "y", "z", "{", "|", "}", "~" >>

charCodeAt(c) == 31 + (CHOOSE i \in 1..Len(Ascii) : Ascii[i] = c)

\* A 32-bit unsigned integer is the pair of its 16-bit halves, high first.
Half == 65536

RECURSIVE BitXor(_, _)
BitXor(a, b) ==
    IF a = 0 THEN b
    ELSE IF b = 0 THEN a
    ELSE 2 * BitXor(a \div 2, b \div 2) + ((a + b) % 2)

\* Math.imul(h, 16777619), 16777619 = 2^24 + 403.
FnvLow == 403
FnvShift == 256

imulFnv(h) ==
    LET low == h[2] * FnvLow
        high == h[1] * FnvLow + (low \div Half) + (h[2] % FnvShift) * FnvShift
    IN  <<high % Half, low % Half>>

\* 2166136261 = 0x811c9dc5
FnvOffsetHigh == 33052
FnvOffsetLow == 40389

RECURSIVE HashFrom(_, _, _)
HashFrom(str, i, h) ==
    IF i > Len(str) THEN h
    ELSE HashFrom(str, i + 1, imulFnv(<<h[1], BitXor(h[2], charCodeAt(str[i]))>>))

HexDigits == <<"0", "1", "2", "3", "4", "5", "6", "7", "8", "9", "a", "b", "c", "d", "e", "f">>

\* (n).toString(16) of the half n, with `width` digits.
RECURSIVE HexOf(_, _)
HexOf(n, width) ==
    IF width = 0 THEN <<>> ELSE Append(HexOf(n \div 16, width - 1), HexDigits[(n % 16) + 1])

RECURSIVE StripZeros(_)
StripZeros(s) == IF Len(s) > 1 /\ Head(s) = "0" THEN StripZeros(Tail(s)) ELSE s

hash(str) ==
    LET h == HashFrom(str, 1, <<FnvOffsetHigh, FnvOffsetLow>>) IN
    StripZeros(HexOf(h[1], 4) \o HexOf(h[2], 4))

(***************************************************************************)
(* parsers/generic.js, parsers/chase.js, parsers/costco.js                 *)
(***************************************************************************)
\* csvString.split(/\r?\n/).map((l) => l.trim()).filter(Boolean)
NonBlankLines(text) ==
    SelectSeq([k \in 1..Len(text) |-> trim(text[k])], LAMBDA l : l # <<>>)

Returned(list) == [kind |-> "ok", transactions |-> list]
Threw(message) == [kind |-> "throw", message |-> message]

\* cols[idx[key]]
Column(cols, headers, key) == At(cols, indexMap(headers, key))

\* (cell ?? "").trim()
OrEmpty(cell) == IF cell.defined THEN trim(cell.s) ELSE <<>>

\* The id without the position of the row.
TransactionIdWithoutRow(source, date, description, i) ==
    <<source, ":">> \o date \o <<":">> \o hash(description)

\* `${source}:${date}:${hash(description)}:${i}`
TransactionId(source, date, description, i) ==
    <<source, ":">> \o date \o <<":">> \o hash(description) \o <<":", ToString(i)>>

Transaction(source, date, description, amount, i) ==
    [date |-> date, description |-> description, amount |-> amount,
     source |-> source, id |-> TransactionId(source, date, description, i)]

\* !date || !description || Number.isNaN(amount)
RowIsDropped(date, description, amount) ==
    date = NoDate \/ description = <<>> \/ amount.nan

GenericDateKeys ==
    <<<<"D", "a", "t", "e">>,
      <<"T", "r", "a", "n", "s", "a", "c", "t", "i", "o", "n", " ", "D", "a", "t", "e">>,
      <<"P", "o", "s", "t", "i", "n", "g", " ", "D", "a", "t", "e">>>>
GenericDescKeys ==
    <<<<"D", "e", "s", "c", "r", "i", "p", "t", "i", "o", "n">>,
      <<"M", "e", "r", "c", "h", "a", "n", "t">>,
      <<"T", "r", "a", "n", "s", "a", "c", "t", "i", "o", "n", " ", "D", "e", "s", "c", "r", "i", "p", "t", "i", "o", "n">>>>
GenericAmountKeys ==
    <<<<"A", "m", "o", "u", "n", "t">>,
      <<"D", "e", "b", "i", "t">>,
      <<"C", "h", "a", "r", "g", "e">>,
      <<"T", "r", "a", "n", "s", "a", "c", "t", "i", "o", "n", " ", "A", "m", "o", "u", "n", "t">>>>

\* The loop of parse (generic) from line i on; lines[i + 1] is the line of
\* 0-based index i.
RECURSIVE GenericRows(_, _, _, _, _)
GenericRows(lines, headers, source, i, out) ==
    IF i >= Len(lines) THEN out
    ELSE LET cols == splitCsvLine(lines[i + 1])
             date == normalizeDate(Column(cols, headers, pickKey(headers, GenericDateKeys)))
             description == OrEmpty(Column(cols, headers, pickKey(headers, GenericDescKeys)))
             amount == normalizeAmount(Column(cols, headers, pickKey(headers, GenericAmountKeys)))
         IN  IF RowIsDropped(date, description, amount)
             THEN GenericRows(lines, headers, source, i + 1, out)
             ELSE GenericRows(lines, headers, source, i + 1,
                      Append(out, Transaction(source, date, description, amount, i)))

genericParse(text, source) ==
    LET lines == NonBlankLines(text) IN
    IF Len(lines) < 2 THEN Returned(<<>>)
    ELSE LET headers == splitCsvLine(lines[1]) IN
         IF \/ pickKey(headers, GenericDateKeys) = NoKey
            \/ pickKey(headers, GenericDescKeys) = NoKey
            \/ pickKey(headers, GenericAmountKeys) = NoKey
         THEN Threw([text |-> "CSV missing required headers. Found:", found |-> headers])
         ELSE Returned(GenericRows(lines, headers, source, 1, <<>>))

\* The row errors of parseWithErrors, in the order they are pushed.
RowErrors(date, description, amount) ==
    (IF date = NoDate THEN <<"Invalid date">> ELSE <<>>)
    \o (IF description = <<>> THEN <<"Empty description">> ELSE <<>>)
    \o (IF amount.nan THEN <<"Invalid amount">> ELSE <<>>)

RECURSIVE GenericRowsWithErrors(_, _, _, _, _, _)
GenericRowsWithErrors(lines, headers, source, i, transactions_, errors) ==
    IF i >= Len(lines)
    THEN [transactions |-> transactions_, errors |-> errors,
          totalRows |-> Len(lines) - 1,
          validCount |-> Len(transactions_), errorCount |-> Len(errors)]
    ELSE LET cols == splitCsvLine(lines[i + 1])
             rawDate == Column(cols, headers, pickKey(headers, GenericDateKeys))
             rawDesc == Column(cols, headers, pickKey(headers, GenericDescKeys))
             rawAmount == Column(cols, headers, pickKey(headers, GenericAmountKeys))
             date == normalizeDate(rawDate)
             description == OrEmpty(rawDesc)
             amount == normalizeAmount(rawAmount)
             rowErrors == RowErrors(date, description, amount)
         IN  IF rowErrors # <<>>
             THEN GenericRowsWithErrors(lines, headers, source, i + 1, transactions_,
                      Append(errors,
                          [row |-> i + 1, message |-> rowErrors,
                           value |-> [date |-> rawDate, description |-> rawDesc,
                                      amount |-> rawAmount]]))
             ELSE GenericRowsWithErrors(lines, headers, source, i + 1,
                      Append(transactions_,
                             Transaction(source, date, description, amount, i)),
                      errors)

genericParseWithErrors(text, source) ==
    LET lines == NonBlankLines(text) IN
    IF Len(lines) < 2
    THEN [transactions |-> <<>>,
          errors |-> <<[row |-> 0, message |-> <<"CSV file is empty or has no data rows">>]>>,
          totalRows |-> 0, validCount |-> 0, errorCount |-> 1]
    ELSE LET headers == splitCsvLine(lines[1])
             missingHeaders ==
                 (IF pickKey(headers, GenericDateKeys) = NoKey THEN <<"Date">> ELSE <<>>)
                 \o (IF pickKey(headers, GenericDescKeys) = NoKey
                     THEN <<"Description">> ELSE <<>>)
                 \o (IF pickKey(headers, GenericAmountKeys) = NoKey
                     THEN <<"Amount">> ELSE <<>>)
         IN  IF missingHeaders # <<>>
             THEN [transactions |-> <<>>,
                   errors |-> <<[row |-> 1,
                                 message |-> <<"Missing required headers">>,
                                 missing |-> missingHeaders, found |-> headers]>>,
                   totalRows |-> Len(lines) - 1, validCount |-> 0, errorCount |-> 1]
             ELSE GenericRowsWithErrors(lines, headers, source, 1, <<>>, <<>>)

ChaseDateKeys ==
    <<<<"T", "r", "a", "n", "s", "a", "c", "t", "i", "o", "n", " ", "D", "a", "t", "e">>,
      <<"P", "o", "s", "t", " ", "D", "a", "t", "e">>,
      <<"D", "a", "t", "e">>>>
ChaseDescKeys == <<<<"D", "e", "s", "c", "r", "i", "p", "t", "i", "o", "n">>>>
ChaseAmountKeys == <<<<"A", "m", "o", "u", "n", "t">>>>
ChaseTypeKeys == <<<<"T", "y", "p", "e">>>>
ChaseMemoKeys == <<<<"M", "e", "m", "o">>>>

TypeReturn == <<"R", "e", "t", "u", "r", "n">>
TypePayment == <<"P", "a", "y", "m", "e", "n", "t">>
TypeSale == <<"S", "a", "l", "e">>

\* The amount of a Chase row left with the sign of its column.
chaseAmountRaw(type, amount) == amount

\* The amount of a Chase row after the sign is forced by its type.
chaseAmount(type, amount) ==
    IF type = TypeReturn \/ type = TypePayment THEN MathAbs(amount)
    ELSE IF type = TypeSale THEN Negate(MathAbs(amount))
    ELSE amount

\* The description of a Chase row, the memo appended.
chaseDescription(cols, headers) ==
    LET description == OrEmpty(Column(cols, headers, pickKey(headers, ChaseDescKeys)))
        memoKey == pickKey(headers, ChaseMemoKeys)
        memoCell == Column(cols, headers, memoKey)
    IN  IF memoKey # NoKey /\ memoCell.defined /\ memoCell.s # <<>>
           /\ trim(memoCell.s) # <<>>
        THEN description \o <<" ", "[">> \o trim(memoCell.s) \o <<"]">>
        ELSE description

RECURSIVE ChaseRows(_, _, _, _, _)
ChaseRows(lines, headers, source, i, out) ==
    IF i >= Len(lines) THEN out
    ELSE LET cols == splitCsvLine(lines[i + 1])
             date == normalizeDate(Column(cols, headers, pickKey(headers, ChaseDateKeys)))
             description == chaseDescription(cols, headers)
             typeKey == pickKey(headers, ChaseTypeKeys)
             type == IF typeKey # NoKey THEN OrEmpty(Column(cols, headers, typeKey))
                     ELSE <<>>
             amount == chaseAmount(type,
                           normalizeAmount(Column(cols, headers,
                                                  pickKey(headers, ChaseAmountKeys))))
         IN  IF RowIsDropped(date, description, amount)
             THEN ChaseRows(lines, headers, source, i + 1, out)
             ELSE ChaseRows(lines, headers, source, i + 1,
                      Append(out, Transaction(source, date, description, amount, i)))

chaseParse(text, source) ==
    LET lines == NonBlankLines(text) IN
    IF Len(lines) < 2 THEN Returned(<<>>)
    ELSE LET headers == splitCsvLine(lines[1]) IN
         IF \/ pickKey(headers, ChaseDateKeys) = NoKey
            \/ pickKey(headers, ChaseDescKeys) = NoKey
            \/ pickKey(headers, ChaseAmountKeys) = NoKey
         THEN Threw([text |-> "Chase CSV missing required headers. Found:",
                     found |-> headers,
                     expected |-> "Transaction Date, Description, Amount"])
         ELSE Returned(ChaseRows(lines, headers, source, 1, <<>>))

CostcoDateKeys ==
    <<<<"D", "a", "t", "e">>,
      <<"T", "r", "a", "n", "s", "a", "c", "t", "i", "o", "n", " ", "D", "a", "t", "e">>,
      <<"P", "o", "s", "t", "e", "d", " ", "D", "a", "t", "e">>>>
CostcoDescKeys ==
    <<<<"D", "e", "s", "c", "r", "i", "p", "t", "i", "o", "n">>,
      <<"M", "e", "r", "c", "h", "a", "n", "t">>>>
CostcoDebitKeys == <<<<"D", "e", "b", "i", "t">>>>
CostcoCreditKeys == <<<<"C", "r", "e", "d", "i", "t">>>>
CostcoStatusKeys == <<<<"S", "t", "a", "t", "u", "s">>>>
CostcoAmountKeys == <<<<"A", "m", "o", "u", "n", "t">>>>

StatusPending == <<"p", "e", "n", "d", "i", "n", "g">>

\* String.prototype.toLowerCase on any ASCII letter.
lowerAscii(c) ==
    IF \E i \in 34..59 : Ascii[i] = c
    THEN Ascii[(CHOOSE i \in 34..59 : Ascii[i] = c) + 32]
    ELSE c

\* x || 0
OrZero(x) == IF x.nan \/ (x.finite /\ x.n = 0) THEN Finite(0) ELSE x

\* a - b on JavaScript numbers.
Minus(a, b) ==
    IF a.nan \/ b.nan THEN NaN
    ELSE IF a.finite /\ b.finite THEN Finite(a.n - b.n)
    ELSE IF a.finite THEN Infinite(-b.sign)
    ELSE IF b.finite THEN a
    ELSE IF a.sign = b.sign THEN NaN
    ELSE a

\* The amount of a Costco row, from Debit/Credit or from Amount.
costcoAmount(cols, headers) ==
    LET debitKey == pickKey(headers, CostcoDebitKeys)
        creditKey == pickKey(headers, CostcoCreditKeys)
    IN  IF debitKey # NoKey \/ creditKey # NoKey
        THEN LET debit == IF debitKey # NoKey
                          THEN normalizeAmount(Column(cols, headers, debitKey))
                          ELSE Finite(0)
                 credit == IF creditKey # NoKey
                           THEN normalizeAmount(Column(cols, headers, creditKey))
                           ELSE Finite(0)
             IN  Minus(OrZero(credit), OrZero(debit))
        ELSE normalizeAmount(Column(cols, headers, pickKey(headers, CostcoAmountKeys)))

\* The row is skipped as pending.
costcoPending(cols, headers) ==
    LET statusKey == pickKey(headers, CostcoStatusKeys) IN
    /\ statusKey # NoKey
    /\ LET status == OrEmpty(Column(cols, headers, statusKey)) IN
       [k \in 1..Len(status) |-> lowerAscii(status[k])] = StatusPending

RECURSIVE CostcoRows(_, _, _, _, _)
CostcoRows(lines, headers, source, i, out) ==
    IF i >= Len(lines) THEN out
    ELSE LET cols == splitCsvLine(lines[i + 1])
             date == normalizeDate(Column(cols, headers, pickKey(headers, CostcoDateKeys)))
             description == OrEmpty(Column(cols, headers, pickKey(headers, CostcoDescKeys)))
             amount == costcoAmount(cols, headers)
         IN  IF \/ costcoPending(cols, headers)
                \/ RowIsDropped(date, description, amount)
                \/ (amount.finite /\ amount.n = 0)
             THEN CostcoRows(lines, headers, source, i + 1, out)
             ELSE CostcoRows(lines, headers, source, i + 1,
                      Append(out, Transaction(source, date, description, amount, i)))

costcoParse(text, source) ==
    LET lines == NonBlankLines(text) IN
    IF Len(lines) < 2 THEN Returned(<<>>)
    ELSE LET headers == splitCsvLine(lines[1]) IN
         IF \/ pickKey(headers, CostcoDateKeys) = NoKey
            \/ pickKey(headers, CostcoDescKeys) = NoKey
         THEN Threw([text |-> "Costco CSV missing required headers. Found:",
                     found |-> headers,
                     expected |-> "Date, Description, and either Debit/Credit or Amount"])
         ELSE IF /\ pickKey(headers, CostcoDebitKeys) = NoKey
                 /\ pickKey(headers, CostcoCreditKeys) = NoKey
                 /\ pickKey(headers, CostcoAmountKeys) = NoKey
         THEN Threw([text |->
                  "Costco CSV must have either Debit/Credit columns or Amount column"])
         ELSE Returned(CostcoRows(lines, headers, source, 1, <<>>))

(***************************************************************************)
(* parser.js                                                               *)
(***************************************************************************)
\* The keys of PARSERS.
Sources == {"generic", "chase", "costco"}

\* PARSERS[source].parse(csvString, source)
parse(text, source) ==
    IF source = "generic" THEN genericParse(text, source)
    ELSE IF source = "chase" THEN chaseParse(text, source)
    ELSE costcoParse(text, source)

parseCsvString(text, source) ==
    IF source \notin Sources
    THEN Threw([text |-> "Unknown source", source |-> source])
    ELSE LET outcome == parse(text, source) IN
         IF outcome.kind = "throw"
         THEN Threw([text |-> "Failed to parse", source |-> source,
                     cause |-> outcome.message])
         ELSE outcome

\* TransactionSchema.safeParse(txn): the fields that fail, in schema order.
SchemaIssues(txn) ==
    (IF txn.id = <<>> THEN <<"id">> ELSE <<>>)
    \o (IF ~IsIsoDate(txn.date) THEN <<"date">> ELSE <<>>)
    \o (IF txn.description = <<>> THEN <<"description">> ELSE <<>>)
    \o (IF ~txn.amount.finite THEN <<"amount">> ELSE <<>>)
    \o (IF txn.source = "" THEN <<"source">> ELSE <<>>)

\* The forEach of the fallback of validateAndParseCsv, from index k - 1 on.
RECURSIVE ValidateEach(_, _, _, _)
ValidateEach(rawTransactions, k, transactions_, errors) ==
    IF k > Len(rawTransactions)
    THEN [transactions |-> transactions_, errors |-> errors,
          totalRows |-> Len(rawTransactions),
          validCount |-> Len(transactions_), errorCount |-> Len(errors)]
    ELSE LET txn == rawTransactions[k] IN
         IF SchemaIssues(txn) = <<>>
         THEN ValidateEach(rawTransactions, k + 1, Append(transactions_, txn), errors)
         ELSE ValidateEach(rawTransactions, k + 1, transactions_,
                  Append(errors, [row |-> k + 1, message |-> SchemaIssues(txn),
                                  value |-> txn]))

validateAndParseCsv(text, source) ==
    IF source \notin Sources
    THEN [transactions |-> <<>>,
          errors |-> <<[row |-> 0, message |-> <<"Unknown source">>]>>,
          totalRows |-> 0, validCount |-> 0, errorCount |-> 1]
    ELSE IF source = "generic" THEN genericParseWithErrors(text, source)
    ELSE LET outcome == parse(text, source) IN
         IF outcome.kind = "throw"
         THEN [transactions |-> <<>>,
               errors |-> <<[row |-> 0, message |-> <<"Failed to parse">>,
                             cause |-> outcome.message]>>,
               totalRows |-> 0, validCount |-> 0, errorCount |-> 1]
         ELSE ValidateEach(outcome.transactions, 1, <<>>, <<>>)

ParseCsvString ==
    /\ ~parsed.called
    /\ parsed' = Called(parseCsvString(csv.lines, csv.source))
    /\ UNCHANGED <<csv, imported>>
    /\ UNCHANGED <<coreVars, reportVars, webVars>>

ValidateAndParseCsv ==
    /\ ~imported.called
    /\ imported' = Called(validateAndParseCsv(csv.lines, csv.source))
    /\ UNCHANGED <<csv, parsed>>
    /\ UNCHANGED <<coreVars, reportVars, webVars>>

(***************************************************************************)
(* CSV texts given to the parsers: a header line and at most MaxDataLines  *)
(* further lines, well formed, malformed or blank.                         *)
(***************************************************************************)
MaxDataLines == 2

GenericHeaders ==
    { <<"D", "a", "t", "e", ",", "D", "e", "s", "c", "r", "i", "p", "t", "i", "o", "n", ",", "A", "m", "o", "u", "n", "t">>,
      <<"P", "o", "s", "t", "i", "n", "g", " ", "D", "a", "t", "e", ",", "M", "e", "r", "c", "h", "a", "n", "t", ",", "C", "h", "a", "r", "g", "e">>,
      <<"N", "a", "m", "e", ",", "V", "a", "l", "u", "e", ",", "O", "t", "h", "e", "r">>,
      <<"D", "a", "t", "e", ",", "D", "e", "s", "c", "r", "i", "p", "t", "i", "o", "n">> }

GenericLines ==
    { <<"2", "0", "2", "5", "-", "0", "1", "-", "1", "5", ",", "A", "b", ",", "-", "3">>,
      <<"1", "/", "5", "/", "2", "0", "2", "5", ",", " ", "A", "b", " ", ",", "2", ".", "5", "0">>,
      <<"1", "3", "-", "0", "1", "-", "2", "0", "2", "5", ",", "A", "b", ",", "-", "3">>,
      <<"2", "0", "2", "5", "-", "0", "1", "-", "1", "5", ",", ",", "-", "3">>,
      <<"2", "0", "2", "5", "-", "0", "1", "-", "1", "5", ",", "A", "b", ",">>,
      <<"2", "0", "2", "5", "-", "0", "1", "-", "1", "5", ",", "A", "b">>,
      <<"2", "0", "2", "5", "-", "0", "1", "-", "1", "5", ",", "A", "b", ",", "a", "b", "c">>,
      <<"2", "0", "2", "5", "-", "0", "1", "-", "1", "5", ",", "b", ",", "I", "n", "f", "i", "n", "i", "t", "y">>,
      <<" ", " ">> }

ChaseHeaders ==
    { <<"T", "r", "a", "n", "s", "a", "c", "t", "i", "o", "n", " ", "D", "a", "t", "e", ",", "D", "e", "s", "c", "r", "i", "p", "t", "i", "o", "n", ",", "T", "y", "p", "e", ",", "A", "m", "o", "u", "n", "t", ",", "M", "e", "m", "o">>,
      <<"T", "r", "a", "n", "s", "a", "c", "t", "i", "o", "n", " ", "D", "a", "t", "e", ",", "D", "e", "s", "c", "r", "i", "p", "t", "i", "o", "n", ",", "T", "y", "p", "e">> }

ChaseLines ==
    { <<"2", "0", "2", "5", "-", "0", "1", "-", "1", "5", ",", "A", "b", ",", "S", "a", "l", "e", ",", "3", ",">>,
      <<"2", "0", "2", "5", "-", "0", "1", "-", "1", "5", ",", "A", "b", ",", "S", "a", "l", "e", ",", "-", "3", ",", "m">>,
      <<"2", "0", "2", "5", "-", "0", "1", "-", "1", "5", ",", "A", "b", ",", "R", "e", "t", "u", "r", "n", ",", "-", "3", ",">>,
      <<"2", "0", "2", "5", "-", "0", "1", "-", "1", "5", ",", "A", "b", ",", "P", "a", "y", "m", "e", "n", "t", ",", "2", ".", "5", "0", ",">>,
      <<"2", "0", "2", "5", "-", "0", "1", "-", "1", "5", ",", "A", "b", ",", "F", "e", "e", ",", "-", "3", ",">>,
      <<"1", "5", ".", "0", "1", ".", "2", "0", "2", "5", ",", "A", "b", ",", "S", "a", "l", "e", ",", "3", ",">>,
      <<"2", "0", "2", "5", "-", "0", "1", "-", "1", "5", ",", "A", "b", ",", "S", "a", "l", "e", ",", "a", "b", "c", ",">>,
      <<>> }

CostcoHeaders ==
    { <<"S", "t", "a", "t", "u", "s", ",", "D", "a", "t", "e", ",", "D", "e", "s", "c", "r", "i", "p", "t", "i", "o", "n", ",", "D", "e", "b", "i", "t", ",", "C", "r", "e", "d", "i", "t">>,
      <<"S", "t", "a", "t", "u", "s", ",", "D", "a", "t", "e", ",", "D", "e", "s", "c", "r", "i", "p", "t", "i", "o", "n">> }

CostcoLines ==
    { <<"C", "l", "e", "a", "r", "e", "d", ",", "2", "0", "2", "5", "-", "0", "1", "-", "1", "5", ",", "A", "b", ",", "3", ",">>,
      <<"C", "l", "e", "a", "r", "e", "d", ",", "2", "0", "2", "5", "-", "0", "1", "-", "1", "5", ",", "A", "b", ",", ",", "2", ".", "5", "0">>,
      <<"P", "e", "n", "d", "i", "n", "g", ",", "2", "0", "2", "5", "-", "0", "1", "-", "1", "5", ",", "A", "b", ",", "3", ",">>,
      <<"C", "l", "e", "a", "r", "e", "d", ",", "2", "0", "2", "5", "-", "0", "1", "-", "1", "5", ",", "A", "b", ",", "3", ",", "3">>,
      <<"C", "l", "e", "a", "r", "e", "d", ",", "2", "0", "2", "5", "-", "0", "1", "-", "1", "5", ",", "A", "b", ",", "a", "b", "c", ",", "2", ".", "5", "0">>,
      <<"C", "l", "e", "a", "r", "e", "d", ",", "2", "0", "2", "5", "-", "0", "1", "-", "1", "5", ",", "A", "b", ",", ",">>,
      <<"C", "l", "e", "a", "r", "e", "d", ",", "1", "5", ".", "0", "1", ".", "2", "0", "2", "5", ",", "A", "b", ",", "3", ",">>,
      <<>> }

HeadersOf(source) ==
    IF source = "generic" THEN GenericHeaders
    ELSE IF source = "chase" THEN ChaseHeaders
    ELSE CostcoHeaders

LinesOf(source) ==
    IF source = "generic" THEN GenericLines
    ELSE IF source = "chase" THEN ChaseLines
    ELSE CostcoLines

InitParse ==
    /\ \E source \in Sources :
          \/ csv = [source |-> source, lines |-> <<>>]
          \/ \E header \in HeadersOf(source) :
             \E n \in 0..MaxDataLines :
             \E data \in [1..n -> LinesOf(source)] :
                csv = [source |-> source, lines |-> <<header>> \o data]
    /\ parsed = NotCalled
    /\ imported = NotCalled
    /\ rulesFile = [rules |-> <<>>]
    /\ transactions = <<>>
    /\ validation = NotCalled
    /\ matched = NotCalled
    /\ result = NotCalled
    /\ ReportIdle
    /\ WebIdle

NextParse ==
    \/ ParseCsvString
    \/ ValidateAndParseCsv

SpecParse == InitParse /\ [][NextParse]_vars

\* The non-blank lines of the text, its header row, and the cells of the
\* data row at position p among the non-blank lines (the header is at 0).
TheLines == NonBlankLines(csv.lines)
TheHeaders == splitCsvLine(TheLines[1])
DataRows == 1..(Len(TheLines) - 1)
RowCells(p) == splitCsvLine(TheLines[p + 1])

\* The cell of row p under the first header among `names`; Undefined when
\* the row is too short or no such header exists.
CellUnder(p, names) ==
    LET at == {i \in 1..Len(TheHeaders) : \E n \in 1..Len(names) : TheHeaders[i] = names[n]}
        first == CHOOSE n \in 1..Len(names) :
                    /\ \E i \in at : TheHeaders[i] = names[n]
                    /\ \A m \in 1..(n - 1) : \A i \in at : TheHeaders[i] # names[m]
        column == CHOOSE i \in at :
                     /\ TheHeaders[i] = names[first]
                     /\ \A j \in at : TheHeaders[j] = names[first] => j <= i
    IN  IF at = {} \/ column > Len(RowCells(p)) THEN Undefined
        ELSE Defined(RowCells(p)[column])

DateKeysOf(source) ==
    IF source = "generic" THEN GenericDateKeys
    ELSE IF source = "chase" THEN ChaseDateKeys
    ELSE CostcoDateKeys

DescKeysOf(source) ==
    IF source = "generic" THEN GenericDescKeys
    ELSE IF source = "chase" THEN ChaseDescKeys
    ELSE CostcoDescKeys

\* The description the adapter gives to row p.
DescriptionOf(p) ==
    IF csv.source = "chase" THEN chaseDescription(RowCells(p), TheHeaders)
    ELSE OrEmpty(CellUnder(p, DescKeysOf(csv.source)))

\* The position, among the non-blank lines, that the id of t ends with;
\* 0 when it ends with none.
RowOf(t) ==
    IF \E p \in DataRows : ToString(p) = t.id[Len(t.id)]
    THEN CHOOSE p \in DataRows : ToString(p) = t.id[Len(t.id)]
    ELSE 0

ParsedOk == parsed.called /\ parsed.kind = "ok"

\* C15: the ids of one result of parseCsvString are pairwise distinct, and
\* the id of a transaction is made of the source, the normalised date and
\* the description of its row and the position of that row among the
\* non-blank lines, whatever rows were skipped before it.
C15_IdsDistinctAndPositional ==
    ParsedOk =>
        LET ts == parsed.transactions IN
        /\ \A j, k \in 1..Len(ts) : j # k => ts[j].id # ts[k].id
        /\ \A j, k \in 1..Len(ts) : j < k => RowOf(ts[j]) < RowOf(ts[k])
        /\ \A k \in 1..Len(ts) :
              LET p == RowOf(ts[k]) IN
              /\ p \in DataRows
              /\ ts[k].date = normalizeDate(CellUnder(p, DateKeysOf(csv.source)))
              /\ ts[k].description = DescriptionOf(p)
              /\ ts[k].id = <<csv.source, ":">> \o ts[k].date \o <<":">>
                               \o hash(ts[k].description) \o <<":", ToString(p)>>

\* Two rows with the same date and description are both emitted.
C15_Witness ==
    /\ ParsedOk
    /\ Len(parsed.transactions) = 2
    /\ parsed.transactions[1].date = parsed.transactions[2].date
    /\ parsed.transactions[1].description = parsed.transactions[2].description
    /\ parsed.transactions[1].id # parsed.transactions[2].id

\* A row is skipped and the row after it keeps its position in its id.
C15_WitnessSkipped ==
    /\ ParsedOk
    /\ Len(parsed.transactions) = 1
    /\ RowOf(parsed.transactions[1]) = 2

\* The transactions of the result that come from row p.
EmittedFrom(ts, p) == {k \in 1..Len(ts) : RowOf(ts[k]) = p}

\* The cell holds nothing once the currency signs are removed.
IsEmptyCell(cell) == ~cell.defined \/ trim(StripCurrency(cell.s)) = <<>>

\* The single amount column of the generic and Chase adapters.
AmountCell(p) ==
    CellUnder(p, IF csv.source = "generic" THEN GenericAmountKeys ELSE ChaseAmountKeys)

HasAmountColumn == csv.source \in {"generic", "chase"}

DateIsUnparsable(p) == normalizeDate(CellUnder(p, DateKeysOf(csv.source))) = NoDate

\* Row p is malformed: its date is in neither convention, its description
\* is empty, or its amount cell is empty, missing or not a finite number.
MalformedRow(p) ==
    \/ DateIsUnparsable(p)
    \/ DescriptionOf(p) = <<>>
    \/ HasAmountColumn /\ (IsEmptyCell(AmountCell(p)) \/ ~normalizeAmount(AmountCell(p)).finite)

\* C16: parseCsvString emits no transaction for a malformed row (date in
\* neither convention, empty description, amount cell empty, missing or not
\* a finite number); every emitted transaction has an ISO date, a non-empty
\* description and a finite amount; the other rows are emitted.
C16_MalformedRowsSkipped ==
    ParsedOk =>
        LET ts == parsed.transactions IN
        /\ \A k \in 1..Len(ts) :
              /\ IsIsoDate(ts[k].date)
              /\ ts[k].description # <<>>
              /\ ts[k].amount.finite
              /\ ~MalformedRow(RowOf(ts[k]))
        /\ \A p \in DataRows :
              (HasAmountColumn /\ ~MalformedRow(p)) => EmittedFrom(ts, p) # {}

\* What is skipped is a row whose date is unparsable, whose description is
\* empty or whose amount is NaN: an empty amount cell is the number 0 and
\* "Infinity" is a number, and such rows are emitted.
RowsSkippedOnNaN ==
    (ParsedOk /\ HasAmountColumn) =>
        LET ts == parsed.transactions IN
        \A p \in DataRows :
            IF \/ DateIsUnparsable(p)
               \/ DescriptionOf(p) = <<>>
               \/ normalizeAmount(AmountCell(p)).nan
            THEN EmittedFrom(ts, p) = {}
            ELSE /\ Cardinality(EmittedFrom(ts, p)) = 1
                 /\ \A k \in EmittedFrom(ts, p) :
                       /\ IsIsoDate(ts[k].date)
                       /\ ts[k].description # <<>>

\* The line number, in the text, of the non-blank line at position p.
FileLine(p) ==
    SelectSeq([k \in 1..Len(csv.lines) |-> k],
              LAMBDA k : trim(csv.lines[k]) # <<>>)[p + 1]

\* Row p fails the validation of its fields: unparsable date, empty
\* description, amount that is not a number.
FailsFieldValidation(p) ==
    \/ DateIsUnparsable(p)
    \/ DescriptionOf(p) = <<>>
    \/ IF csv.source = "costco" THEN costcoAmount(RowCells(p), TheHeaders).nan
       ELSE normalizeAmount(AmountCell(p)).nan

\* C17: validateAndParseCsv reports each data row that fails field
\* validation as one entry of errors carrying the line number of the row in
\* the file, returns every other data row in transactions, and
\* validCount + errorCount = totalRows = the number of data rows.
C17_RowErrorsCollected ==
    imported.called =>
        /\ imported.validCount + imported.errorCount = imported.totalRows
        /\ imported.totalRows = Cardinality(DataRows)
        /\ \A p \in DataRows :
              IF FailsFieldValidation(p)
              THEN /\ Cardinality({e \in 1..Len(imported.errors) :
                                      imported.errors[e].row = FileLine(p)}) = 1
                   /\ EmittedFrom(imported.transactions, p) = {}
              ELSE EmittedFrom(imported.transactions, p) # {}

\* The generic adapter, on a text with the required headers: the rows that
\* fail are reported with their position among the non-blank lines plus
\* one, the others are returned, and the counts add up.
GenericRowErrorsCollected ==
    (imported.called /\ csv.source = "generic" /\ Len(TheLines) >= 2
        /\ pickKey(TheHeaders, GenericDateKeys) # NoKey
        /\ pickKey(TheHeaders, GenericDescKeys) # NoKey
        /\ pickKey(TheHeaders, GenericAmountKeys) # NoKey) =>
        /\ imported.validCount + imported.errorCount = imported.totalRows
        /\ imported.totalRows = Cardinality(DataRows)
        /\ \A p \in DataRows :
              IF FailsFieldValidation(p)
              THEN /\ Cardinality({e \in 1..Len(imported.errors) :
                                      imported.errors[e].row = p + 1}) = 1
                   /\ EmittedFrom(imported.transactions, p) = {}
              ELSE Cardinality(EmittedFrom(imported.transactions, p)) = 1

\* Some header is one of the names.
HasAlias(names) ==
    \E i \in 1..Len(TheHeaders) : \E n \in 1..Len(names) : TheHeaders[i] = names[n]

AmountAliases ==
    IF csv.source = "generic" THEN GenericAmountKeys
    ELSE IF csv.source = "chase" THEN ChaseAmountKeys
    ELSE CostcoDebitKeys \o CostcoCreditKeys \o CostcoAmountKeys

\* The header row has no accepted alias for the date, the description or
\* the amount.
RequiredHeaderMissing ==
    /\ Len(TheLines) >= 1
    /\ \/ ~HasAlias(DateKeysOf(csv.source))
       \/ ~HasAlias(DescKeysOf(csv.source))
       \/ ~HasAlias(AmountAliases)

\* C18: on a text whose header row lacks an accepted alias for the date,
\* the description or the amount column, parseCsvString fails with an error
\* that lists the headers found; it returns no list, empty or partial.
C18_MissingHeadersFail ==
    (parsed.called /\ RequiredHeaderMissing) =>
        /\ parsed.kind = "throw"
        /\ "cause" \in DOMAIN parsed.message
        /\ "found" \in DOMAIN parsed.message.cause
        /\ parsed.message.cause.found = TheHeaders

\* The same for a text with at least one data row, the Costco adapter's
\* error for a missing amount column left aside: that one lists no header.
MissingHeadersFailWithRows ==
    (parsed.called /\ RequiredHeaderMissing /\ Len(TheLines) >= 2) =>
        /\ parsed.kind = "throw"
        /\ "cause" \in DOMAIN parsed.message
        /\ (csv.source # "costco" \/ ~HasAlias(CostcoDateKeys) \/ ~HasAlias(CostcoDescKeys))
              => /\ "found" \in DOMAIN parsed.message.cause
                 /\ parsed.message.cause.found = TheHeaders

\* |n|
Magnitude(n) == IF n < 0 THEN -n ELSE n

\* C19: in the Chase adapter an emitted transaction of a row of type Sale
\* has amount -|raw amount|, one of a row of type Return or Payment has
\* amount +|raw amount|, whatever the sign of the raw amount.
C19_ChaseSignByType ==
    (ParsedOk /\ csv.source = "chase") =>
        LET ts == parsed.transactions IN
        \A k \in 1..Len(ts) :
            LET p == RowOf(ts[k])
                type == OrEmpty(CellUnder(p, ChaseTypeKeys))
                raw == normalizeAmount(CellUnder(p, ChaseAmountKeys))
            IN  raw.finite =>
                   /\ type = TypeSale => ts[k].amount = Finite(-Magnitude(raw.n))
                   /\ type \in {TypeReturn, TypePayment} =>
                         ts[k].amount = Finite(Magnitude(raw.n))

\* A sale with a positive raw amount and a return with a negative one.
C19_Witness ==
    /\ ParsedOk
    /\ csv.source = "chase"
    /\ Len(parsed.transactions) = 2
    /\ OrEmpty(CellUnder(1, ChaseTypeKeys)) = TypeSale
    /\ normalizeAmount(CellUnder(1, ChaseAmountKeys)) = Finite(Dollars(3))
    /\ parsed.transactions[1].amount = Finite(Dollars(-3))
    /\ OrEmpty(CellUnder(2, ChaseTypeKeys)) = TypeReturn
    /\ normalizeAmount(CellUnder(2, ChaseAmountKeys)) = Finite(Dollars(-3))
    /\ parsed.transactions[2].amount = Finite(Dollars(3))

\* The cell is empty or holds a finite number.
EmptyOrNumeric(cell) == IsEmptyCell(cell) \/ normalizeAmount(cell).finite

\* The value of a debit or credit cell, an empty cell counting as 0.
CellValue(cell) == IF IsEmptyCell(cell) THEN 0 ELSE normalizeAmount(cell).n

IsPending(p) ==
    LET status == OrEmpty(CellUnder(p, CostcoStatusKeys)) IN
    [k \in 1..Len(status) |-> lowerAscii(status[k])] = StatusPending

CostcoDebitCredit ==
    /\ ParsedOk
    /\ csv.source = "costco"
    /\ Len(TheLines) >= 1
    /\ HasAlias(CostcoDebitKeys \o CostcoCreditKeys)

\* C20: in the Costco adapter with Debit/Credit columns an emitted
\* transaction has amount credit - debit of its row, an empty cell counting
\* as 0; none has amount 0 or comes from a pending row; a row whose debit
\* or credit cell is non-empty but not numeric is not emitted.
C20_CostcoCreditMinusDebit ==
    CostcoDebitCredit =>
        LET ts == parsed.transactions IN
        \A k \in 1..Len(ts) :
            LET p == RowOf(ts[k])
                debit == CellUnder(p, CostcoDebitKeys)
                credit == CellUnder(p, CostcoCreditKeys)
            IN  /\ EmptyOrNumeric(debit)
                /\ EmptyOrNumeric(credit)
                /\ ts[k].amount = Finite(CellValue(credit) - CellValue(debit))
                /\ ts[k].amount # Finite(0)
                /\ ~IsPending(p)

\* The same with a cell that is not numeric counting as 0, as an empty one:
\* such a row is emitted when the other cell is not 0.
CostcoNonNumericAsZero ==
    CostcoDebitCredit =>
        LET ts == parsed.transactions IN
        \A k \in 1..Len(ts) :
            LET p == RowOf(ts[k])
                debit == CellUnder(p, CostcoDebitKeys)
                credit == CellUnder(p, CostcoCreditKeys)
                value(cell) == IF EmptyOrNumeric(cell) THEN CellValue(cell) ELSE 0
            IN  /\ ts[k].amount = Finite(value(credit) - value(debit))
                /\ ts[k].amount # Finite(0)
                /\ ~IsPending(p)

(***************************************************************************)
(* Conservation of the transactions through the categorizer                *)
(***************************************************************************)
Accepted == validation.called /\ validation.ok

\* Output record p traces to input transaction k: by originalTxnId for a
\* split leg, by its id otherwise.
TracesTo(p, k) ==
    LET r == result.categorized[p] IN
    IF Has(r, "originalTxnId") THEN r.originalTxnId = transactions[k].id
    ELSE r.id = transactions[k].id

\* The number of records transaction k is to yield: the length of the split
\* of the rule selected for it, 1 when the rule has no split or no rule is
\* selected.
ExpectedRecords(k) ==
    LET s == Selected(k) IN IF HasSplit(s) THEN Len(SplitOf(s)) ELSE 1

RECURSIVE SumExpected(_)
SumExpected(k) == IF k = 0 THEN 0 ELSE ExpectedRecords(k) + SumExpected(k - 1)

\* C25: for a document validateRulesFile accepts, categorizeTransactions
\* neither loses nor duplicates a transaction: every input yields at least
\* one record, every record traces to exactly one input, and the number of
\* records is the number of non-split transactions plus the lengths of the
\* splits of the split ones.
C25_NoTransactionLostOrDuplicated ==
    (Accepted /\ Ran) =>
        /\ \A k \in 1..Len(transactions) :
              \E p \in 1..Len(result.categorized) : TracesTo(p, k)
        /\ \A p \in 1..Len(result.categorized) :
              Cardinality({k \in 1..Len(transactions) : TracesTo(p, k)}) = 1
        /\ Len(result.categorized) = SumExpected(Len(transactions))

C25_Witness ==
    /\ Accepted
    /\ Ran
    /\ Len(transactions) = 2
    /\ Len(result.categorized) = 3
    /\ \E k \in 1..2 : HasSplit(Selected(k)) /\ Len(SplitOf(Selected(k))) = 2
    /\ \E k \in 1..2 : ~HasRule(Selected(k))

(***************************************************************************)
(* The categorizer on transactions whose ids are any strings, as a caller  *)
(* of the library or a restored backup may supply them                     *)
(***************************************************************************)
\* "t1", "t2" and the strings "t1:split:0", "t1:split:1".
InputIds ==
    { <<"t1">>, <<"t2">>, <<"t1", ":split:", "0">>, <<"t1", ":split:", "1">> }

IdTxnLists ==
    {[k \in 1..Len(shapes) |-> Merge(shapes[k], [id |-> ids[k]])] :
        shapes \in SeqsUpTo(TxnShapes, MaxTxns), ids \in [1..MaxTxns -> InputIds]}

\* Documents of one rule, or of none.
IdRulesFiles ==
    {[rules |-> WithRuleIds(shapes)] : shapes \in SeqsUpTo(CatRuleShapes, 1)}

InitIds ==
    /\ rulesFile \in IdRulesFiles
    /\ transactions \in IdTxnLists
    /\ validation = NotCalled
    /\ matched = NotCalled
    /\ result = NotCalled
    /\ ParserIdle
    /\ ReportIdle
    /\ WebIdle

NextIds ==
    \/ ValidateRulesFile
    \/ CategorizeTransactions

SpecIds == InitIds /\ [][NextIds]_vars

DistinctInputIds ==
    \A j, k \in 1..Len(transactions) : j # k => transactions[j].id # transactions[k].id

DistinctOutputIds ==
    \A p, q \in 1..Len(result.categorized) :
        p # q => result.categorized[p].id # result.categorized[q].id

\* C26: if the ids of the input transactions are pairwise distinct, so are
\* the ids of the records categorizeTransactions returns, legs included.
C26_OutputIdsDistinct ==
    (Ran /\ DistinctInputIds) => DistinctOutputIds

\* The id of input j is the id the split of input k gives one of its legs.
IsLegIdOf(j, k) ==
    \E i \in 0..(MaxAllocs - 1) :
        transactions[j].id = transactions[k].id \o <<":split:", ToString(i)>>

\* The ids are distinct when, besides, no input id is another input's id
\* followed by ":split:" and an index.
OutputIdsDistinctWithoutLegIds ==
    (/\ Ran
     /\ DistinctInputIds
     /\ \A j, k \in 1..Len(transactions) : ~IsLegIdOf(j, k)) => DistinctOutputIds

(***************************************************************************)
(* exporter.js                                                             *)
(*                                                                         *)
(* A text the exporter inspects or builds is a sequence of one-character   *)
(* strings; Chars gives that of a name the core handles whole.             *)
(***************************************************************************)
Chars(str) == [i \in 1..Len(str) |-> SubSeq(str, i, i)]

\* The text of an id, which the core builds from tokens.
RECURSIVE IdText(_)
IdText(id) == IF id = <<>> THEN <<>> ELSE Chars(Head(id)) \o IdText(Tail(id))

\* String(n) for a number n >= 0 without fraction.
RECURSIVE NatText(_)
NatText(n) == IF n < 10 THEN <<Digits[n + 1]>> ELSE NatText(n \div 10) \o <<Digits[(n % 10) + 1]>>

\* The decimals of r / scale, 0 < r < scale.
RECURSIVE FracText(_, _)
FracText(r, scale) ==
    IF r = 0 THEN <<>>
    ELSE <<Digits[((r * 10) \div scale) + 1]>> \o FracText((r * 10) % scale, scale)

\* String(x) for the number x = n / scale, as Array.prototype.join prints it.
NumberText(n, scale) ==
    (IF n < 0 THEN <<"-">> ELSE <<>>)
    \o NatText(Abs(n) \div scale)
    \o (IF Abs(n) % scale = 0 THEN <<>> ELSE <<".">> \o FracText(Abs(n) % scale, scale))

Special == {",", "\"", "\n"}

\* v.replace(/"/g, '""')
RECURSIVE DoubleQuotes(_)
DoubleQuotes(v) ==
    IF v = <<>> THEN <<>>
    ELSE (IF Head(v) = "\"" THEN <<"\"", "\"">> ELSE <<Head(v)>>) \o DoubleQuotes(Tail(v))

csvSafe(v) ==
    IF \E i \in 1..Len(v) : v[i] \in Special
    THEN <<"\"">> \o DoubleQuotes(v) \o <<"\"">>
    ELSE v

\* String(year): the year is given as a number or as a string.
YearText(year) == IF IsNumber(year) THEN NatText(year.n) ELSE year.s

startsWith(text, prefix) ==
    Len(prefix) <= Len(text) /\ SubSeq(text, 1, Len(prefix)) = prefix

ExportHeader ==
    <<Chars("Date"), Chars("Description"), Chars("Amount"), Chars("Category"),
      Chars("Venture"), Chars("Note"), Chars("OriginalTxnId"), Chars("SplitPercent"),
      Chars("OriginalAmount")>>

\* The cells of the line pushed for record r; join(",") separates them with
\* commas.
ExportCells(r) ==
    <<r.date,
      csvSafe(r.description),
      NumberText(r.amount, AmountScale),
      csvSafe(Chars(r.category)),
      csvSafe(IF Has(r, "venture") THEN Chars(r.venture) ELSE <<>>),
      csvSafe(IF Has(r, "note") THEN Chars(r.note) ELSE <<>>),
      csvSafe(IF Has(r, "originalTxnId") THEN IdText(r.originalTxnId) ELSE <<>>),
      IF Has(r, "allocation")
      THEN IF IsNumber(r.allocation.percent)
           THEN NumberText(r.allocation.percent.n, PercentScale)
           ELSE r.allocation.percent.s
      ELSE <<>>,
      IF Has(r, "allocation") THEN NumberText(r.allocation.originalAmount, AmountScale)
      ELSE <<>>>>

\* Mutant: the records filtered by venture only.
ExportFilterVentureOnly(r, venture, y) ==
    /\ Has(r, "venture")
    /\ r.venture = venture

\* t.venture === venture && t.date.startsWith(y)
ExportFilter(r, venture, y) ==
    /\ Has(r, "venture")
    /\ r.venture = venture
    /\ startsWith(r.date, y)

RECURSIVE SelectRecords(_, _, _)
SelectRecords(records, venture, y) ==
    IF records = <<>> THEN <<>>
    ELSE (IF ExportFilter(Head(records), venture, y) THEN <<Head(records)>> ELSE <<>>)
         \o SelectRecords(Tail(records), venture, y)

\* csv: the lines of the text, the header first; each ends with "\n".
exportScheduleC(categorizedTxns, options) ==
    LET rows == SelectRecords(categorizedTxns, options.venture, YearText(options.year))
    IN  [csv |-> <<ExportHeader>> \o [k \in 1..Len(rows) |-> ExportCells(rows[k])],
         count |-> Len(rows)]

\* generateAlerts
RECURSIVE FilterUncategorized(_)
FilterUncategorized(records) ==
    IF records = <<>> THEN <<>>
    ELSE (IF Head(records).category = "Uncategorized" THEN <<Head(records)>> ELSE <<>>)
         \o FilterUncategorized(Tail(records))

generateAlerts(categorizedTxns) ==
    LET uncategorized == FilterUncategorized(categorizedTxns) IN
    [uncategorizedCount |-> Len(uncategorized), uncategorized |-> uncategorized]

\* generateSummary.  An object used as a table ({}) is a function from its
\* keys to its values, empty at first; the names given here to ventures,
\* categories and merchants are not names Object.prototype defines.
\* if (!obj[key]) obj[key] = 0; obj[key] += amount
AddTo(obj, key, amount) ==
    [k \in (DOMAIN obj) \cup {key} |->
        IF k = key THEN (IF key \in DOMAIN obj THEN obj[key] ELSE 0) + amount ELSE obj[k]]

\* txn.venture || "unassigned", txn.category || "Uncategorized"
OrDefault(r, key, fallback) == IF Has(r, key) /\ r[key] # "" THEN r[key] ELSE fallback

\* txn.description || "Unknown"
MerchantOf(r) == IF r.description = <<>> THEN Chars("Unknown") ELSE r.description

\* uncategorizedMerchants, as the list of its entries in the order in which
\* the keys were created.
CountMerchant(merchants, merchant, amount) ==
    IF \E i \in 1..Len(merchants) : merchants[i].merchant = merchant
    THEN [i \in 1..Len(merchants) |->
            IF merchants[i].merchant = merchant
            THEN [merchant |-> merchant, count |-> merchants[i].count + 1,
                  total |-> merchants[i].total + amount]
            ELSE merchants[i]]
    ELSE Append(merchants, [merchant |-> merchant, count |-> 1, total |-> amount])

NoTotals ==
    [byVenture |-> <<>>, byCategory |-> <<>>, byVentureCategory |-> <<>>,
     uncategorizedCount |-> 0, merchants |-> <<>>]

\* The body of the loop for one record.
SummarizeOne(acc, txn) ==
    LET venture == OrDefault(txn, "venture", "unassigned")
        category == OrDefault(txn, "category", "Uncategorized")
        amount == txn.amount
        uncategorized == category = "Uncategorized"
    IN  [byVenture |-> AddTo(acc.byVenture, venture, amount),
         byCategory |-> AddTo(acc.byCategory, category, amount),
         byVentureCategory |->
             AddTo(acc.byVentureCategory, venture \o ":" \o category, amount),
         uncategorizedCount |-> acc.uncategorizedCount + (IF uncategorized THEN 1 ELSE 0),
         merchants |-> IF uncategorized
                       THEN CountMerchant(acc.merchants, MerchantOf(txn), amount)
                       ELSE acc.merchants]

RECURSIVE SummarizeFrom(_, _)
SummarizeFrom(records, n) ==
    IF n = 0 THEN NoTotals ELSE SummarizeOne(SummarizeFrom(records, n - 1), records[n])

\* A key that is an array index ("0", "7", "12"): Object.entries lists such
\* keys first, in ascending numeric order, and the other keys after them
\* in the order of their creation.
IsArrayIndex(key) ==
    /\ Len(key) \in 1..9
    /\ AllDigits(key)
    /\ (Len(key) > 1 => key[1] # "0")

\* Entries i and j of the creation order: i is listed before j.
ListedBefore(merchants, i, j) ==
    LET a == merchants[i].merchant
        b == merchants[j].merchant
    IN  IF IsArrayIndex(a) /\ IsArrayIndex(b) THEN DigitsValue(a) < DigitsValue(b)
        ELSE IF IsArrayIndex(a) THEN TRUE
        ELSE IF IsArrayIndex(b) THEN FALSE
        ELSE i < j

\* Object.entries(uncategorizedMerchants)
ObjectEntries(merchants) ==
    LET n == Len(merchants)
        rank(i) == 1 + Cardinality({j \in 1..n : j # i /\ ListedBefore(merchants, j, i)})
    IN  [p \in 1..n |-> merchants[CHOOSE i \in 1..n : rank(i) = p]]

\* sort((a, b) => b[1].count - a[1].count): a stable sort, greatest count
\* first.
SortByCount(entries) ==
    LET n == Len(entries)
        before(j, i) == \/ entries[j].count > entries[i].count
                        \/ entries[j].count = entries[i].count /\ j < i
        rank(i) == 1 + Cardinality({j \in 1..n : j # i /\ before(j, i)})
    IN  [p \in 1..n |-> entries[CHOOSE i \in 1..n : rank(i) = p]]

TopLimit == 10

\* slice(0, 10)
TopOf(entries) == SubSeq(entries, 1, IF Len(entries) < TopLimit THEN Len(entries) ELSE TopLimit)

generateSummary(categorizedTxns) ==
    LET acc == SummarizeFrom(categorizedTxns, Len(categorizedTxns)) IN
    [byVenture |-> acc.byVenture,
     byCategory |-> acc.byCategory,
     byVentureCategory |-> acc.byVentureCategory,
     uncategorizedCount |-> acc.uncategorizedCount,
     topUncategorized |-> TopOf(SortByCount(ObjectEntries(acc.merchants))),
     totalTransactions |-> Len(categorizedTxns)]

\* The exporter, invoked with what categorizeTransactions returned.
ExportVentures == {"v1", "a"}
ExportYears == {Num(2025), Num(202), Str(Chars("2024"))}

ExportScheduleC ==
    /\ Ran
    /\ ~exported.called
    /\ \E venture \in ExportVentures :
       \E year \in ExportYears :
          LET options == [venture |-> venture, year |-> year] IN
          exported' = Called(Merge([options |-> options],
                                   exportScheduleC(result.categorized, options)))
    /\ UNCHANGED <<coreVars, parserVars, webVars, summary, alertSummary>>

GenerateSummary ==
    /\ Ran
    /\ ~summary.called
    /\ summary' = Called(generateSummary(result.categorized))
    /\ UNCHANGED <<coreVars, parserVars, webVars, exported, alertSummary>>

GenerateAlerts ==
    /\ Ran
    /\ ~alertSummary.called
    /\ alertSummary' = Called(generateAlerts(result.categorized))
    /\ UNCHANGED <<coreVars, parserVars, webVars, exported, summary>>

(***************************************************************************)
(* The exporter after the categorizer: documents whose actions name        *)
(* ventures and categories of every kind, transactions of several years    *)
(***************************************************************************)
ReportTxn(date, description, amount) ==
    [date |-> Chars(date), description |-> description, amount |-> amount,
     source |-> "generic"]

ReportTxnShapes ==
    { ReportTxn("2025-01-15", <<"A", "b">>, Dollars(-3)),
      ReportTxn("2024-12-01", <<"b">>, Dollars(2)),
      ReportTxn("2025-03-20", <<"7">>, Dollars(-4)) }

ReportThens ==
    { <<>>,
      [category |-> "Software", venture |-> "v1", note |-> "saas, \"cloud\""],
      [category |-> "", venture |-> ""],
      [category |-> "c", venture |-> "a:b"],
      [category |-> "b:c", venture |-> "a"],
      [category |-> "Uncategorized", venture |-> "v1"],
      [category |-> "Shared",
       split |-> Arr(<<[venture |-> "v1", percent |-> Num(Pct(60, 0))],
                       [venture |-> "a", percent |-> Num(Pct(40, 0))]>>)] }

\* A rule for the descriptions that contain "a", a rule for every
\* transaction, both or neither.
ReportRulesFiles ==
    LET first(t) == [when |-> [contains |-> Keyword(<<"a">>)], then |-> t]
        second(t) == [when |-> <<>>, then |-> t]
    IN  {[rules |-> WithRuleIds(shapes)] :
            shapes \in {<<>>}
                       \cup {<<first(t)>> : t \in ReportThens}
                       \cup {<<second(t)>> : t \in ReportThens}
                       \cup {<<first(t), second(u)>> : t \in ReportThens, u \in ReportThens}}

\* Twelve transactions no rule matches, with eleven descriptions: the last
\* description occurs twice.
ManyDescriptions ==
    LET description(k) == <<"m", Digits[(k % 10) + 1], IF k > 10 THEN "x" ELSE "y">>
    IN  [k \in 1..12 |-> description(IF k = 12 THEN 11 ELSE k)]

ManyTxns ==
    WithIds([k \in 1..12 |-> ReportTxn("2025-01-15", ManyDescriptions[k], Dollars(-1))])

InitReport ==
    /\ \/ /\ rulesFile \in ReportRulesFiles
          /\ transactions \in {WithIds(shapes) : shapes \in SeqsUpTo(ReportTxnShapes, MaxTxns)}
       \/ /\ rulesFile = [rules |-> <<>>]
          /\ transactions = ManyTxns
    /\ validation = NotCalled
    /\ matched = NotCalled
    /\ result = NotCalled
    /\ ParserIdle
    /\ ReportIdle
    /\ WebIdle

NextReport ==
    \/ ValidateRulesFile
    \/ CategorizeTransactions
    \/ ExportScheduleC
    \/ GenerateSummary
    \/ GenerateAlerts

SpecReport == InitReport /\ [][NextReport]_vars

(***************************************************************************)
(* What the claims about the exporter speak of                             *)
(***************************************************************************)
\* The year component of an ISO date.
YearOf(date) == SubSeq(date, 1, 4)

IsLeg(r) == r.audit[1].step = "split_allocation"

\* The lines after the header are those of the records that pass `wanted`,
\* in input order; count is their number; the last three columns are empty
\* for the records that are no split legs and filled for the legs.
ExportedExactly(wanted(_)) ==
    LET rows == SelectSeq(result.categorized, wanted)
        lines == exported.csv
    IN  /\ lines[1] = ExportHeader
        /\ Len(lines) = 1 + Len(rows)
        /\ exported.count = Len(lines) - 1
        /\ \A k \in 1..Len(rows) :
              LET cells == lines[k + 1] IN
              /\ Len(cells) = Len(ExportHeader)
              /\ cells[1] = rows[k].date
              /\ cells[3] = NumberText(rows[k].amount, AmountScale)
              /\ IF IsLeg(rows[k])
                 THEN cells[7] # <<>> /\ cells[8] # <<>> /\ cells[9] # <<>>
                 ELSE cells[7] = <<>> /\ cells[8] = <<>> /\ cells[9] = <<>>

\* C21: exportScheduleC emits, after the header and in input order, exactly
\* the records of the venture asked for whose date has the year asked for
\* as its year component; count is the number of data rows; the
\* OriginalTxnId, SplitPercent and OriginalAmount columns are empty exactly
\* for the records that are no split legs.
C21_ExportByVentureAndYear ==
    exported.called =>
        LET wanted(r) == /\ Has(r, "venture")
                         /\ r.venture = exported.options.venture
                         /\ YearOf(r.date) = YearText(exported.options.year)
        IN  ExportedExactly(wanted)

\* C21, amended: the records emitted are those of the venture asked for
\* whose date starts with the text of the year asked for, which is the year
\* component when that text has four digits.
C21_ExportByVentureAndYearPrefix ==
    exported.called =>
        LET wanted(r) == /\ Has(r, "venture")
                         /\ r.venture = exported.options.venture
                         /\ startsWith(r.date, YearText(exported.options.year))
        IN  ExportedExactly(wanted)

C21_Witness ==
    /\ exported.called
    /\ exported.options = [venture |-> "v1", year |-> Num(2025)]
    /\ exported.count = 1
    /\ Len(result.categorized) = 3
    /\ IsLeg(result.categorized[1]) /\ result.categorized[1].venture = "v1"
    /\ IsLeg(result.categorized[2]) /\ result.categorized[2].venture = "a"
    /\ ~IsLeg(result.categorized[3]) /\ result.categorized[3].venture = "v1"
    /\ YearOf(result.categorized[3].date) = Chars("2024")

\* A non-leg emitted beside nothing else.
C21_WitnessPlain ==
    /\ exported.called
    /\ exported.count = 2
    /\ \A k \in 1..Len(result.categorized) : ~IsLeg(result.categorized[k])

\* The sum of the values of a table.
RECURSIVE SumValues(_, _)
SumValues(obj, keys) ==
    IF keys = {} THEN 0
    ELSE LET k == CHOOSE key \in keys : TRUE IN obj[k] + SumValues(obj, keys \ {k})

Records == result.categorized
AllPositions == 1..Len(Records)
VentureAt(p) == IF Has(Records[p], "venture") THEN Records[p].venture ELSE "unassigned"
PositionsWithVenture(v) == {p \in AllPositions : VentureAt(p) = v}
PositionsWithCategory(c) == {p \in AllPositions : Records[p].category = c}
PositionsWithPair(v, c) == PositionsWithVenture(v) \cap PositionsWithCategory(c)
PairsOfRecords == {<<VentureAt(p), Records[p].category>> : p \in AllPositions}

SummaryTotals ==
    /\ DOMAIN summary.byVenture = {VentureAt(p) : p \in AllPositions}
    /\ \A v \in DOMAIN summary.byVenture :
          summary.byVenture[v] = SumAmounts(Records, PositionsWithVenture(v))
    /\ DOMAIN summary.byCategory = {Records[p].category : p \in AllPositions}
    /\ \A c \in DOMAIN summary.byCategory :
          summary.byCategory[c] = SumAmounts(Records, PositionsWithCategory(c))
    /\ Cardinality(DOMAIN summary.byVentureCategory) = Cardinality(PairsOfRecords)
    /\ \A pair \in PairsOfRecords :
          /\ (pair[1] \o ":" \o pair[2]) \in DOMAIN summary.byVentureCategory
          /\ summary.byVentureCategory[pair[1] \o ":" \o pair[2]]
                = SumAmounts(Records, PositionsWithPair(pair[1], pair[2]))
    /\ summary.totalTransactions = Len(Records)
    /\ SumValues(summary.byVenture, DOMAIN summary.byVenture)
          = SumAmounts(Records, AllPositions)
    /\ SumValues(summary.byCategory, DOMAIN summary.byCategory)
          = SumAmounts(Records, AllPositions)
    /\ SumValues(summary.byVentureCategory, DOMAIN summary.byVentureCategory)
          = SumAmounts(Records, AllPositions)

\* C22: generateSummary returns in byVenture[v] the signed sum of the
\* amounts of the records with venture v, in byCategory[c] that of the
\* records with category c, in byVentureCategory one signed sum per distinct
\* (venture, category) pair, and in totalTransactions the number of records,
\* legs counted one by one; the values of each table add up to the sum of
\* all the amounts.
C22_SummaryTotals == summary.called => SummaryTotals

\* A name that is not empty and has no ":" in it.
PlainName(name) == name # "" /\ \A i \in 1..Len(name) : SubSeq(name, i, i) # ":"

\* The same for records whose ventures and categories are plain names: an
\* empty venture is counted under "unassigned", an empty category under
\* "Uncategorized", and the key `${venture}:${category}` is shared by the
\* pairs ("a:b", "c") and ("a", "b:c").
SummaryTotalsOfPlainNames ==
    (/\ summary.called
     /\ \A p \in AllPositions :
           PlainName(VentureAt(p)) /\ PlainName(Records[p].category)) => SummaryTotals

SummaryOfLegs ==
    /\ summary.called
    /\ summary.totalTransactions = 3
    /\ \E p \in AllPositions : IsLeg(Records[p])
    /\ \A p \in AllPositions :
          PlainName(VentureAt(p)) /\ PlainName(Records[p].category)

\* The records with category "Uncategorized", and their descriptions.
UncategorizedPositions == PositionsWithCategory("Uncategorized")
UncategorizedDescriptions == {Records[p].description : p \in UncategorizedPositions}
PositionsOfDescription(d) == {p \in UncategorizedPositions : Records[p].description = d}
FirstOccurrence(d) ==
    CHOOSE p \in PositionsOfDescription(d) : \A q \in PositionsOfDescription(d) : p <= q

\* Description d is to come before description e: more records, or as many
\* and an earlier first occurrence.
RanksBefore(d, e) ==
    LET cd == Cardinality(PositionsOfDescription(d))
        ce == Cardinality(PositionsOfDescription(e))
    IN  cd > ce \/ (cd = ce /\ FirstOccurrence(d) < FirstOccurrence(e))

RankOf(d) == 1 + Cardinality({e \in UncategorizedDescriptions : e # d /\ RanksBefore(e, d)})

TopUncategorizedAsClaimed ==
    LET n == Cardinality(UncategorizedDescriptions)
        top == summary.topUncategorized
    IN  /\ Len(top) = (IF n < TopLimit THEN n ELSE TopLimit)
        /\ \A k \in 1..Len(top) :
              /\ top[k].merchant \in UncategorizedDescriptions
              /\ RankOf(top[k].merchant) = k
              /\ top[k].count = Cardinality(PositionsOfDescription(top[k].merchant))
              /\ top[k].total = SumAmounts(Records, PositionsOfDescription(top[k].merchant))

\* C23: topUncategorized has one entry per distinct description among the
\* records with category "Uncategorized", with that description's count and
\* signed total, ordered by count descending, equal counts in the order of
\* first occurrence, and only the first 10 entries.
C23_TopUncategorized == summary.called => TopUncategorizedAsClaimed

\* The same when no description is written as an array index ("7"), which
\* Object.entries lists before the other keys, and no category is empty,
\* which generateSummary counts as "Uncategorized".
TopUncategorizedOfOrdinaryRecords ==
    (/\ summary.called
     /\ \A p \in AllPositions :
           ~IsArrayIndex(Records[p].description) /\ Records[p].category # "")
        => TopUncategorizedAsClaimed

TopUncategorizedTruncated ==
    /\ summary.called
    /\ Cardinality(UncategorizedDescriptions) = 11
    /\ Len(summary.topUncategorized) = TopLimit
    /\ summary.topUncategorized[1].count = 2
    /\ summary.topUncategorized[1].merchant = Records[11].description
    /\ summary.topUncategorized[2].merchant = Records[1].description

NoMatchPositions == {p \in AllPositions : Records[p].audit[1].step = "no_match"}

\* C27: for a document validateRulesFile accepts, a record has category
\* "Uncategorized" exactly when no rule matched its transaction, so the
\* uncategorizedCount of generateAlerts and that of generateSummary both
\* equal the number of records with a no_match audit entry.
C27_UncategorizedIsNoMatch ==
    (Accepted /\ summary.called /\ alertSummary.called) =>
        /\ UncategorizedPositions = NoMatchPositions
        /\ alertSummary.uncategorizedCount = Cardinality(NoMatchPositions)
        /\ summary.uncategorizedCount = Cardinality(NoMatchPositions)

\* What the two counts are: generateAlerts counts the records whose
\* category is "Uncategorized", whether no rule matched or the action of
\* the matched rule has no category or names that one; generateSummary
\* counts, besides, the records whose category is empty.
UncategorizedCounts ==
    (summary.called /\ alertSummary.called) =>
        /\ NoMatchPositions \subseteq UncategorizedPositions
        /\ alertSummary.uncategorizedCount = Cardinality(UncategorizedPositions)
        /\ summary.uncategorizedCount
              = Cardinality(UncategorizedPositions \cup PositionsWithCategory(""))

(***************************************************************************)
(* lib/storage.js                                                          *)
(*                                                                         *)
(* The item of localStorage under STORAGE_KEY is Null (absent), a text     *)
(* JSON.parse rejects, or the JSON text of an object.  JSON.stringify      *)
(* leaves out the keys whose value is undefined, which here are the keys a *)
(* record does not have, and JSON.parse gives back the strings, finite     *)
(* numbers, nulls, arrays and objects written: the text of an object is    *)
(* the object.  lastUpdated, which nothing reads, is left out.             *)
(***************************************************************************)
Unparsable == [type |-> "text"]
Json(value) == [type |-> "json", value |-> value]

CURRENT_VERSION == 1

getDefaultState ==
    [version |-> CURRENT_VERSION, transactions |-> Arr(<<>>), rulesFile |-> Null,
     categorized |-> Null, summary |-> Null]

\* !current.version || current.version < 1
NeedsMigration(data) == ~Has(data, "version") \/ data.version < 1

migrateData(data) ==
    IF NeedsMigration(data)
    THEN Merge(Merge(getDefaultState, data), [version |-> 1])
    ELSE data

\* parsed.version, undefined when the key is absent
VersionOf(data) == IF Has(data, "version") THEN Defined(data.version) ELSE Undefined

\* The depth of the call stack at which the engine throws a RangeError
\* instead of entering a function.
MaxStack == 6

\* loadData and saveData call each other: saveData is loadData followed
\* by the write, and is written so below.  Each is given the item, the
\* depth of its own frame and whether localStorage.setItem throws (the
\* quota is exceeded), and returns what it returns, the item it leaves and
\* the number of setItem calls that succeeded.  A RangeError is caught by
\* the try of the function that makes the call.
StackOverflow(depth) == depth + 1 > MaxStack

\* saveData from `const updated` on, `loaded` being what its loadData() did.
SetItem(loaded, updates, full) ==
    IF full
    THEN [ok |-> FALSE, item |-> loaded.item, writes |-> loaded.writes]
    ELSE [ok |-> TRUE, writes |-> loaded.writes + 1,
          item |-> Json(Merge(Merge(loaded.value, updates),
                              [version |-> CURRENT_VERSION]))]

RECURSIVE loadData(_, _, _)
loadData(item, depth, full) ==
    IF item = Null \/ item = Unparsable
    THEN [value |-> getDefaultState, item |-> item, writes |-> 0]
    ELSE LET stored == item.value
             migrated == migrateData(stored)
         IN  IF VersionOf(migrated) = VersionOf(stored)
             THEN [value |-> migrated, item |-> item, writes |-> 0]
             ELSE IF StackOverflow(depth)
             THEN [value |-> getDefaultState, item |-> item, writes |-> 0]
             \* saveData(migrated), in the frame at depth + 1
             ELSE IF StackOverflow(depth + 1)
             THEN [value |-> migrated, item |-> item, writes |-> 0]
             ELSE LET saved == SetItem(loadData(item, depth + 2, full), migrated, full) IN
                  [value |-> migrated, item |-> saved.item, writes |-> saved.writes]

saveData(item, updates, depth, full) ==
    IF StackOverflow(depth)
    THEN [ok |-> FALSE, item |-> item, writes |-> 0]
    ELSE SetItem(loadData(item, depth + 1, full), updates, full)

saveTransactions(item, transactions_, depth, full) ==
    saveData(item, [transactions |-> transactions_, categorized |-> Null, summary |-> Null],
             depth, full)

saveRulesFile(item, rulesFile_, depth, full) ==
    saveData(item, [rulesFile |-> rulesFile_, categorized |-> Null, summary |-> Null],
             depth, full)

saveCategorization(item, categorized, summary_, depth, full) ==
    saveData(item, [categorized |-> categorized, summary |-> summary_], depth, full)

\* localStorage.removeItem
clearAllData(item) == Null

\* importBackup(jsonString), the string being the text of `backup`, or a
\* text JSON.parse rejects.
importBackup(item, backup, depth, full) ==
    IF backup = Unparsable
    THEN [success |-> FALSE, item |-> item, writes |-> 0]
    ELSE LET saved == saveData(item, migrateData(backup.value), depth + 1, full) IN
         [success |-> TRUE, item |-> saved.item, writes |-> saved.writes]

(***************************************************************************)
(* apps/web: hooks/usePersistedState.js, App.jsx and                       *)
(* components/UploadSection.jsx                                            *)
(*                                                                         *)
(* `app` holds the state of the hook (transactions, rulesFile,             *)
(* categorized, summary; mounted once its effect has run), the UI state of *)
(* App (csvFile, csvSource, parseError, parseErrors, rulesError), the      *)
(* source selected in UploadSection, and the file reads in flight.         *)
(* `storage` holds the item, whether some write has failed and, for the    *)
(* calls of loadData made from outside storage.js, what the last one did.  *)
(***************************************************************************)
\* A number of the parsers is the number of the core.
CoreTxn(txn) == [txn EXCEPT !.amount = txn.amount.n]
CoreTxns(txns) == [k \in 1..Len(txns) |-> CoreTxn(txns[k])]

\* data.transactions || []
TransactionsOr(data) ==
    IF Has(data, "transactions") /\ data.transactions # Null
    THEN data.transactions ELSE Arr(<<>>)

\* The state the hook takes from loadData(): the effect on mount and
\* reloadData.
FromData(state, data) ==
    [state EXCEPT !.transactions = TransactionsOr(data),
                  !.rulesFile = OrElse(data, "rulesFile", Null),
                  !.categorized = OrElse(data, "categorized", Null),
                  !.summary = OrElse(data, "summary", Null)]

\* The in-memory half of the wrapped setters.
setTransactions(state, txns) ==
    [state EXCEPT !.transactions = txns, !.categorized = Null, !.summary = Null]

setRulesFile(state, rules) ==
    [state EXCEPT !.rulesFile = rules, !.categorized = Null, !.summary = Null]

setCategorization(state, cat, sum) ==
    [state EXCEPT !.categorized = cat, !.summary = sum]

clearData(state) ==
    [state EXCEPT !.transactions = Arr(<<>>), !.rulesFile = Null,
                  !.categorized = Null, !.summary = Null]

\* The storage after a call of saveData: the boolean it returns is dropped
\* by the hook; `failed` remembers that a write did not happen.
AfterSave(saved) ==
    [storage EXCEPT !.item = saved.item, !.failed = @ \/ ~saved.ok]

\* loadData has to write when the item holds data of an old version.
HasOldData(item) == item # Null /\ item # Unparsable /\ NeedsMigration(item.value)

AfterLoad(loaded, full) ==
    [storage EXCEPT !.item = loaded.item,
                    !.failed = @ \/ (full /\ HasOldData(storage.item))]

\* What the continuation of handleCsvUpload shows for a result of
\* validateAndParseCsv.
ShowResult(state, parseResult) ==
    IF Len(parseResult.errors) > 0 /\ Len(parseResult.transactions) = 0
    THEN [setTransactions(state, Arr(<<>>))
             EXCEPT !.parseError = Str(parseResult.errors[1].message),
                    !.parseErrors = parseResult.errors]
    ELSE [setTransactions(state, Arr(parseResult.transactions))
             EXCEPT !.parseErrors = parseResult.errors]

\* The stored transactions of a result, as saveTransactions is given them.
ShownTransactions(parseResult) ==
    IF Len(parseResult.errors) > 0 /\ Len(parseResult.transactions) = 0
    THEN Arr(<<>>) ELSE Arr(parseResult.transactions)

\* The synchronous part of handleCsvUpload(file, source), for a File.
StartUpload(state, file, source_) ==
    [state EXCEPT !.csvFile = file, !.csvSource = source_,
                  !.parseError = Null, !.parseErrors = <<>>,
                  !.reads = @ \cup {[file |-> file, source |-> source_]}]

\* The files the user drops or selects, and the object handleLoadSampleData
\* puts in csvFile, which has no text().
CsvHeader ==
    <<"D", "a", "t", "e", ",", "D", "e", "s", "c", "r", "i", "p", "t", "i", "o", "n", ",", "A", "m", "o", "u", "n", "t">>
CsvRow ==
    <<"2", "0", "2", "5", "-", "0", "1", "-", "1", "5", ",", "A", "b", ",", "-", "3">>
CsvBadRow ==
    <<"1", "3", "-", "0", "1", "-", "2", "0", "2", "5", ",", "A", "b", ",", "-", "3">>

File(name, text) == [name |-> name, text |-> text]
CsvFiles == { File("a.csv", <<CsvHeader, CsvRow>>), File("b.csv", <<CsvHeader, CsvBadRow>>) }
SampleCsv == <<CsvHeader, CsvRow>>
SampleFile == [name |-> "sample-transactions.csv", size |-> Len(SampleCsv)]

\* Rules documents: one validateRulesFile accepts, and one it rejects
\* because the percents of its split sum to 50.
ValidDoc ==
    [rules |-> <<[id |-> "r1", when |-> [contains |-> Keyword(<<"a">>)],
                  then |-> [category |-> "Software", venture |-> "v1"]]>>]
InvalidDoc ==
    [rules |-> <<[id |-> "r1", when |-> <<>>,
                  then |-> [category |-> "Shared",
                            split |-> Arr(<<[venture |-> "v1",
                                             percent |-> Num(Pct(50, 0))]>>)]]>>]

Empty == [type |-> "empty"]
RulesTexts == {Empty, Unparsable, Json(ValidDoc), Json(InvalidDoc)}

\* Transactions an earlier visit stored, or a backup holds.
StoredTransactions ==
    Arr(<<[id |-> <<"t1">>, date |-> <<"2", "0", "2", "5", "-", "0", "1", "-", "1", "5">>,
           description |-> <<"A", "b">>, amount |-> Finite(Dollars(-3)),
           source |-> "generic"]>>)

\* Backup files, and what the storage holds when the page is opened: one
\* written by this version, and one without a version.
CurrentData(doc) ==
    [version |-> CURRENT_VERSION, transactions |-> StoredTransactions, rulesFile |-> doc,
     categorized |-> Null, summary |-> Null]
OldData == [transactions |-> StoredTransactions, rulesFile |-> ValidDoc]

Backups == {Unparsable, Json(CurrentData(InvalidDoc)), Json(OldData)}
StoredItems == {Null, Unparsable, Json(CurrentData(ValidDoc)), Json(OldData)}

MaxReads == 2

UseEffect ==
    /\ ~app.mounted
    /\ \E full \in BOOLEAN :
          LET loaded == loadData(storage.item, 1, full) IN
          /\ app' = [FromData(app, loaded.value) EXCEPT !.mounted = TRUE]
          /\ storage' = AfterLoad(loaded, full)
    /\ UNCHANGED <<coreVars, parserVars, reportVars>>

\* handleDrop and handleFileSelect: onUpload(files[0], source)
HandleDrop ==
    /\ app.mounted
    /\ Cardinality(app.reads) < MaxReads
    /\ \E file \in CsvFiles : app' = StartUpload(app, file, app.source)
    /\ UNCHANGED <<storage, coreVars, parserVars, reportVars>>

\* handleSourceChange(newSource).  With the object of the sample in
\* csvFile, file.text is not a function and the catch of handleCsvUpload
\* runs at once.
HandleSourceChange ==
    /\ app.mounted
    /\ Cardinality(app.reads) < MaxReads
    /\ \E newSource \in Sources, full \in BOOLEAN :
          LET selected == [app EXCEPT !.source = newSource] IN
          IF app.csvFile = Null
          THEN app' = selected /\ UNCHANGED storage
          ELSE IF app.csvFile = SampleFile
          THEN /\ app' = [setTransactions(selected, Arr(<<>>))
                            EXCEPT !.csvSource = newSource,
                                   !.parseError = Str(<<"file.text is not a function">>),
                                   !.parseErrors = <<>>]
               /\ storage' = AfterSave(saveTransactions(storage.item, Arr(<<>>), 1, full))
          ELSE app' = StartUpload(selected, app.csvFile, newSource) /\ UNCHANGED storage
    /\ UNCHANGED <<coreVars, parserVars, reportVars>>

\* The continuation of handleCsvUpload once file.text() has resolved.
FileRead ==
    /\ app.mounted
    /\ \E read \in app.reads, full \in BOOLEAN :
       \E parseResult \in {validateAndParseCsv(read.file.text, read.source)} :
          /\ app' = [ShowResult(app, parseResult) EXCEPT !.reads = @ \ {read}]
          /\ storage' = AfterSave(saveTransactions(storage.item,
                                      ShownTransactions(parseResult), 1, full))
    /\ UNCHANGED <<coreVars, parserVars, reportVars>>

HandleRulesChange ==
    /\ app.mounted
    /\ \E jsonText \in RulesTexts, full \in BOOLEAN :
          LET accepted == /\ jsonText \notin {Empty, Unparsable}
                          /\ validateRulesFile(jsonText.value).ok
              rules == IF accepted THEN jsonText.value ELSE Null
          IN  /\ app' = [setRulesFile(app, rules)
                           EXCEPT !.rulesError = IF accepted \/ jsonText = Empty
                                                 THEN Null ELSE Str(<<"error">>)]
              /\ storage' = AfterSave(saveRulesFile(storage.item, rules, 1, full))
    /\ UNCHANGED <<coreVars, parserVars, reportVars>>

\* Both fetches answer with the files of the sample; the document of the
\* sample is not given to validateRulesFile.
HandleLoadSampleData ==
    /\ app.mounted
    /\ \E full \in BOOLEAN :
       \E parseResult \in {validateAndParseCsv(SampleCsv, "generic")} :
       \E first \in {saveTransactions(storage.item, Arr(parseResult.transactions), 1, full)} :
          /\ app' = [setRulesFile(setTransactions(app, Arr(parseResult.transactions)),
                                  ValidDoc)
                       EXCEPT !.parseErrors = parseResult.errors, !.csvFile = SampleFile]
          /\ storage' = [AfterSave(saveRulesFile(first.item, ValidDoc, 1, full))
                           EXCEPT !.failed = @ \/ ~first.ok]
    /\ UNCHANGED <<coreVars, parserVars, reportVars>>

\* categorizeTransactions(transactions, rulesFile) on whatever document is
\* the current one; an Error goes to rulesError.
HandleRunCategorization ==
    /\ app.mounted
    /\ Len(app.transactions.items) > 0
    /\ app.rulesFile # Null
    /\ \E full \in BOOLEAN :
          LET txns == CoreTxns(app.transactions.items)
              outcome == categorizeTransactions(txns, app.rulesFile)
          IN  /\ rulesFile' = app.rulesFile
              /\ transactions' = txns
              /\ result' = Called(outcome)
              /\ IF outcome.kind = "throw"
                 THEN app' = [app EXCEPT !.rulesError = Str(<<"error">>)] /\ UNCHANGED storage
                 ELSE LET cat == Arr(outcome.categorized)
                          sum == generateSummary(outcome.categorized)
                      IN  /\ app' = setCategorization(app, cat, sum)
                          /\ storage' = AfterSave(saveCategorization(storage.item, cat, sum,
                                                                     1, full))
    /\ UNCHANGED <<validation, matched, parserVars, reportVars>>

\* The user confirms.
HandleClearData ==
    /\ app.mounted
    /\ app' = [clearData(app) EXCEPT !.csvFile = Null, !.parseError = Null,
                                     !.parseErrors = <<>>, !.rulesError = Null]
    /\ storage' = [storage EXCEPT !.item = clearAllData(storage.item)]
    /\ UNCHANGED <<coreVars, parserVars, reportVars>>

\* reader.onload of handleImportBackup: importBackup, then reloadData.
HandleImportBackup ==
    /\ app.mounted
    /\ \E backup \in Backups, full \in BOOLEAN :
          LET restored == importBackup(storage.item, backup, 1, full) IN
          IF ~restored.success
          THEN UNCHANGED <<app, storage>>
          ELSE LET loaded == loadData(restored.item, 1, full) IN
               /\ app' = [FromData(app, loaded.value)
                            EXCEPT !.csvFile = Null, !.parseError = Null,
                                   !.parseErrors = <<>>, !.rulesError = Null]
               /\ storage' = [storage EXCEPT !.item = loaded.item, !.failed = @ \/ full]
    /\ UNCHANGED <<coreVars, parserVars, reportVars>>

\* The page as it opens: the state of the hooks before the effect, over
\* whatever an earlier visit left in the storage.
AppOpened ==
    [mounted |-> FALSE, transactions |-> Arr(<<>>), rulesFile |-> Null,
     categorized |-> Null, summary |-> Null, csvFile |-> Null, csvSource |-> "generic",
     parseError |-> Null, parseErrors |-> <<>>, rulesError |-> Null,
     source |-> "generic", reads |-> {}]

InitWeb ==
    /\ app = AppOpened
    /\ \E item \in StoredItems :
          storage = [item |-> item, failed |-> FALSE, loaded |-> NotCalled]
    /\ rulesFile = [rules |-> <<>>]
    /\ transactions = <<>>
    /\ validation = NotCalled
    /\ matched = NotCalled
    /\ result = NotCalled
    /\ ParserIdle
    /\ ReportIdle

\* The rules and the persisted state: every way a rules document becomes
\* the current one, and the runs of the categorizer.
NextWeb ==
    \/ UseEffect
    \/ HandleRulesChange
    \/ HandleLoadSampleData
    \/ HandleRunCategorization
    \/ HandleClearData
    \/ HandleImportBackup

SpecWeb == InitWeb /\ [][NextWeb]_vars

\* The uploads alone: drops, selections and changes of the source, and the
\* reads completing in any order.
NextUpload ==
    \/ UseEffect
    \/ HandleDrop
    \/ HandleSourceChange
    \/ FileRead
    \/ HandleLoadSampleData

SpecUpload == InitWeb /\ [][NextUpload]_vars

(***************************************************************************)
(* The callers and the validation of the rules document                    *)
(***************************************************************************)
\* C24: categorizeTransactions is only invoked with a rules document that
\* validateRulesFile accepts: on every path by which a document becomes the
\* current one of the web app (typed JSON, sample, restored backup, reload
\* from storage), a document that fails validation is never categorized.
C24_OnlyValidDocumentsCategorized ==
    result.called => validateRulesFile(rulesFile).ok

\* A run of the categorizer on the document with the split of 50 percent:
\* the one leg carries half of the amount of its transaction.
InvalidDocumentCategorized ==
    /\ result.called
    /\ rulesFile = InvalidDoc
    /\ result.kind = "ok"
    /\ Len(result.categorized) = 1
    /\ 2 * result.categorized[1].amount = transactions[1].amount

(***************************************************************************)
(* The persisted state                                                     *)
(***************************************************************************)
\* What loadData() would return now.
Stored == loadData(storage.item, 1, FALSE).value

InMemoryIsStored ==
    /\ app.transactions = TransactionsOr(Stored)
    /\ app.rulesFile = OrElse(Stored, "rulesFile", Null)
    /\ app.categorized = OrElse(Stored, "categorized", Null)
    /\ app.summary = OrElse(Stored, "summary", Null)

\* The results are those of the current transactions and rules document.
ResultsAreCurrent ==
    app.categorized # Null =>
        /\ app.rulesFile # Null
        /\ LET outcome == categorizeTransactions(CoreTxns(app.transactions.items),
                                                 app.rulesFile)
           IN  /\ outcome.kind = "ok"
               /\ app.categorized = Arr(outcome.categorized)
               /\ app.summary = generateSummary(outcome.categorized)

\* C28: after any sequence of setTransactions, setRulesFile,
\* setCategorization and clearData, the stored and the in-memory
\* categorized results and summary are non-null only if no transactions or
\* rules change has happened since the categorization that produced them,
\* and the in-memory state equals what loadData would return.
C28_MemoryAndStorageAgree ==
    app.mounted =>
        /\ InMemoryIsStored
        /\ ResultsAreCurrent
        /\ (app.categorized = Null <=> app.summary = Null)

\* As long as no write to the storage has failed, the two agree.
AgreeWhileWritesSucceed ==
    (app.mounted /\ ~storage.failed) =>
        /\ InMemoryIsStored
        /\ ResultsAreCurrent
        /\ (app.categorized = Null <=> app.summary = Null)

\* The results of a run are in memory and in the storage.
ResultsStored ==
    /\ app.mounted
    /\ ~storage.failed
    /\ app.categorized # Null
    /\ OrElse(Stored, "categorized", Null) = app.categorized

\* A change after a run whose write failed: the results are gone from
\* memory and still in the storage.
StaleResultsStored ==
    /\ app.mounted
    /\ app.categorized = Null
    /\ OrElse(Stored, "categorized", Null) # Null

(***************************************************************************)
(* Uploads in flight                                                       *)
(***************************************************************************)
\* C30: once the reads of the uploads requested have completed, in
\* whichever order, the current transactions and row errors are those
\* parsed from the most recently requested (file, source) pair, the one
\* displayed.
C30_UploadsAgreeWithDisplayed ==
    (app.mounted /\ app.reads = {} /\ app.csvFile \in CsvFiles) =>
        \E parseResult \in {validateAndParseCsv(app.csvFile.text, app.csvSource)} :
            /\ app.transactions = ShownTransactions(parseResult)
            /\ app.parseErrors = parseResult.errors

\* Two reads in flight.
TwoReadsInFlight == app.mounted /\ Cardinality(app.reads) = 2

\* The transactions shown were parsed as another source than the one
\* displayed.
ParsedAsAnotherSource ==
    /\ app.mounted
    /\ app.reads = {}
    /\ app.csvFile \in CsvFiles
    /\ Len(app.transactions.items) > 0
    /\ app.transactions.items[1].source # app.csvSource

(***************************************************************************)
(* loadData over the contents of the storage key                           *)
(***************************************************************************)
\* Objects under the key: no version, version 0 or the current one, and
\* each of transactions and rulesFile absent or present.
WithKey(data, key, value) ==
    IF value = Undefined THEN data ELSE Merge(data, key :> value.s)

StoredObjects ==
    { WithKey(WithKey(WithKey(<<>>, "version", version), "transactions", txns),
              "rulesFile", rules) :
        version \in {Undefined, Defined(0), Defined(CURRENT_VERSION)},
        txns \in {Undefined, Defined(Arr(<<>>)), Defined(StoredTransactions)},
        rules \in {Undefined, Defined(Null), Defined(ValidDoc)} }

LoadItems == {Null, Unparsable} \cup {Json(data) : data \in StoredObjects}

\* A call of loadData() from outside storage.js; `loaded` keeps what it
\* was given and what it did.
LoadData ==
    /\ \E full \in BOOLEAN :
          \E outcome \in {loadData(storage.item, 1, full)} :
             storage' = [item |-> outcome.item,
                         failed |-> storage.failed \/ (full /\ HasOldData(storage.item)),
                         loaded |-> Called([before |-> storage.item, full |-> full,
                                            value |-> outcome.value,
                                            writes |-> outcome.writes])]
    /\ UNCHANGED <<app, coreVars, parserVars, reportVars>>

\* A call of saveTransactions([]) from outside storage.js.
SaveTransactions ==
    /\ \E full \in BOOLEAN :
          \E saved \in {saveTransactions(storage.item, Arr(<<>>), 1, full)} :
             storage' = [item |-> saved.item, failed |-> storage.failed \/ ~saved.ok,
                         loaded |-> NotCalled]
    /\ UNCHANGED <<app, coreVars, parserVars, reportVars>>

InitLoad ==
    /\ \E item \in LoadItems :
          storage = [item |-> item, failed |-> FALSE, loaded |-> NotCalled]
    /\ app = NoApp
    /\ rulesFile = [rules |-> <<>>]
    /\ transactions = <<>>
    /\ validation = NotCalled
    /\ matched = NotCalled
    /\ result = NotCalled
    /\ ParserIdle
    /\ ReportIdle

NextLoad ==
    \/ LoadData
    \/ SaveTransactions

SpecLoad == InitLoad /\ [][NextLoad]_vars

Loaded == storage.loaded.called

\* What a following loadData() does.
LoadedAgain == loadData(storage.item, 1, FALSE)

\* C29: for every content of the storage key, loadData returns a state
\* with version 1; when the stored data needed migration it is written
\* back once, so that a following loadData returns the same migrated data
\* without migrating again.  Stated for the calls whose writes succeed.
C29_LoadDataMigratesOnce ==
    (Loaded /\ ~storage.loaded.full) =>
        /\ VersionOf(storage.loaded.value) = Defined(CURRENT_VERSION)
        /\ storage.loaded.writes = IF HasOldData(storage.loaded.before) THEN 1 ELSE 0
        /\ LoadedAgain.value = storage.loaded.value
        /\ LoadedAgain.writes = 0

\* What loadData returns has version 1, and unless the write failed a
\* following loadData returns the same data and writes nothing.
LoadDataReturnsCurrentVersion ==
    Loaded =>
        /\ VersionOf(storage.loaded.value) = Defined(CURRENT_VERSION)
        /\ LoadedAgain.value = storage.loaded.value
        /\ (~storage.loaded.full => LoadedAgain.writes = 0)
        /\ (storage.loaded.writes > 0 => HasOldData(storage.loaded.before))

\* Data without a version: loadData calls saveData, which calls loadData
\* on the same item, and so on until the stack is exhausted; every
\* saveData frame above the deepest then writes.
WrittenBackMoreThanOnce ==
    /\ Loaded
    /\ HasOldData(storage.loaded.before)
    /\ storage.loaded.writes > 1

====
